---- MODULE Spec2Model ----
(***************************************************************************)
(* Model of the upload pipeline of npm-storage-package:                    *)
(*   - createStorageUploadMiddleware   (src/src/middleware.ts)             *)
(*   - CloudStorageEngine._handleFile  (multer-storage, in                 *)
(*     src/eslint.config.js lines 275-470)                                 *)
(*   - storageAction                   (src/eslint.config.js lines 75-93)  *)
(* Several specifications share the module: Spec drives one request        *)
(* through the middleware, SpecEngine drives the files of one request      *)
(* through the multer storage engine, SpecResolve applies the per-file     *)
(* decisions (filter, extension test, object key) of both to one file,     *)
(* SpecStore follows storageAction calls against one backend bucket, and   *)
(* SpecMwStore is the union of Spec and SpecStore.                         *)
(***************************************************************************)
EXTENDS Integers, Sequences, FiniteSets, TLC

\* ------------------------------------------------------------------ bounds
\* Largest number of files one request carries.
MaxFiles == 2
\* File sizes (middleware) range over 1..MaxSize.
MaxSize == 2

VARIABLES
    options,        \* StorageMiddlewareOptions the middleware was created with
    files,          \* the request's files (req.file / req.files), arrival order
    pc,             \* position of the async middleware function
    fi,             \* fields mode: index of the current fieldConfig
    ki,             \* fields mode: index of the current file of the field
    uploadedUrls,   \* fields mode: uploadedUrls of the current field
    results,        \* multiple mode: the promises handed to Promise.all
    inflight,       \* ids of files whose backend upload has not returned
    uploads,        \* ids of files for which a backend upload was started
    completed,      \* ids of files whose backend upload returned, in that order
    fatalAt,        \* Len(uploads) when the first file failed on the size
                    \* limit or in the backend, -1 before
    rejected,       \* ids of files a fileFilter has rejected
    fsFiles,        \* ids of files whose temp path exists on disk
    unlinkLog,      \* the unlinkSync calls made: which file, was its path there
    uploadedFiles,  \* req.uploadedFiles
    nextCalls,      \* the calls of next made so far, with what held then
    eOptions,       \* CloudStorageOptions the storage engine was built with
    eFiles,         \* the files of one multipart request, arrival order
    eNext,          \* index of the next file _handleFile is called for
    eh,             \* per file: the state of its _handleFile call
    eUploads,       \* the backend uploads the engine has started
    resolveIn,      \* one file and the settings it is resolved against
    resolveOut,     \* what the code decided for that file
    sConfig,        \* StorageConfig and provider the adapter is called with
    store,          \* keys of the objects the backend bucket holds
    sCalls,         \* the storageAction calls made so far, with their results
    fConfigs,       \* StorageFactory.configs: per provider its config, if given
    fCalls,         \* the calls of the factory's methods, with what they gave
    fBackend,       \* the backend uploads made through what the factory gave
    host,           \* what surrounds the middleware: the Express wrapper,
                    \* a continuation that throws, temp files that cannot be
                    \* deleted, a client that may abort
    aborted,        \* the abort of the host request: Len(uploads) and the
                    \* uploads in flight when it came, at = -1 before
    cur,            \* two requests through one middleware: the request whose
                    \* turn of the event loop runs (1 or 2)
    other           \* the locals and the req object of the request that waits

mwVars == <<options, files, pc, fi, ki, uploadedUrls, results, inflight,
            uploads, completed, fatalAt, rejected, fsFiles, unlinkLog,
            uploadedFiles, nextCalls>>

engVars == <<eOptions, eFiles, eNext, eh, eUploads>>

resVars == <<resolveIn, resolveOut>>

stoVars == <<sConfig, store, sCalls>>

\* The state around the adapters: the factory, the host, a second request.
extVars == <<fConfigs, fCalls, fBackend, host, aborted, cur, other>>

\* The state of the specifications other than Spec and SpecEngine.
sideVars == <<resVars, stoVars, extVars>>

vars == <<mwVars, engVars, sideVars>>

\* ------------------------------------------------------------- input sets
FieldNames == {"avatar", "docs"}

\* fieldName = "file" is the default of the single field logic.
DefaultFieldName == "file"

\* maxCount of a fields entry; 0 stands for an entry without maxCount.
FieldConfigs ==
    [fieldName : FieldNames, maxCount : {0, 1, 2}, hasFilter : BOOLEAN]

\* options.fields when given and not empty holds one or two distinct
\* fields, all of them with or all without a fileFilter.
WellFormedFields(fs) ==
    /\ \A i, j \in 1..Len(fs) : i # j => fs[i].fieldName # fs[j].fieldName
    /\ \A i, j \in 1..Len(fs) : fs[i].hasFilter = fs[j].hasFilter
    /\ Len(fs) = 1 => fs[1].fieldName = "avatar"

FileRecords ==
    [field : FieldNames \cup {DefaultFieldName}, size : 1..MaxSize,
     accept : BOOLEAN, hasPath : BOOLEAN]

\* A file of the request; its position is its identity (its temp path and
\* the unique filename the upstream layer gave it).
WithIds(fs) == [i \in 1..Len(fs) |-> [id |-> i] @@ fs[i]]

\* Provider: the backends storageAction knows
Providers == {"s3", "gcs", "azure"}

\* ----------------------------------------------------------------- helpers
FieldsMode == options.hasFields /\ Len(options.fields) > 0

\* files?.[fieldConfig.fieldName]: of a req.files keyed by field name the
\* files of the field; convertExpressRequest hands the middleware the array
\* of all files (or the one file) instead, which has no such key
FilesOfField(name) ==
    IF host.viaExpress THEN <<>> ELSE SelectSeq(files, LAMBDA f : f.field = name)

\* `https://${bucket}.s3.amazonaws.com/${fileName}` and its siblings: the
\* provider prefix followed by the object key.
Location(fileName) == <<"https", fileName>>

\* fileName = file.filename || file.originalname (no generator configured)
FileNameOf(f) == f.id

\* limit && size > limit: a limit that is not given, and a limit of 0, are
\* both falsy and written 0
SizeExceeds(limit, size) == limit # 0 /\ size > limit

\* An adapter that goes to the provider whatever the config holds.
BucketNeverMissing(c) == FALSE

\* !config?.bucket
BucketMissing(c) == ~c.bucket

\* The upload in flight reads from file.path: s3Action reads the file with
\* readFileSync before its first await, gcsAction (bucket.upload) and
\* azureAction (blob.uploadFile) hand the path to the SDK.
UploadReadsPath == options.provider # "s3"

\* storageAction throws before any backend call: no bucket, or neither
\* filePath nor buffer (the middleware passes filePath only).
UploadThrowsEarly(f) == BucketMissing(options) \/ ~f.hasPath

\* The error of such a call: the bucket is tested first, in storageAction,
\* the file data after it, in the provider's action.
UploadError(f) == IF BucketMissing(options) THEN "bucket" ELSE "filePath"

\* A cleanup that calls unlinkSync for every file that has a path.
UnlinkAttemptNoExists(fs, f) == f.hasPath

\* file.path && fs.existsSync(file.path): unlinkSync is called
UnlinkAttempt(fs, f) == f.hasPath /\ f.id \in fs

\* unlinkSync is called for the file and throws
UnlinkFails(fs, f) == UnlinkAttempt(fs, f) /\ f.id \in host.unlinkFails

\* if (file.path && fs.existsSync(file.path)) fs.unlinkSync(file.path)
Unlink(fs, f) ==
    IF UnlinkAttempt(fs, f) /\ ~UnlinkFails(fs, f) THEN fs \ {f.id} ELSE fs

\* files.forEach(unlink): a throw of unlinkSync ends the loop
RECURSIVE UnlinkAll(_, _)
UnlinkAll(fs, s) ==
    IF s = <<>> \/ UnlinkFails(fs, Head(s)) THEN fs
    ELSE UnlinkAll(Unlink(fs, Head(s)), Tail(s))

\* The unlinkSync call of that statement, if it is made.
LogUnlink(log, fs, f) ==
    IF UnlinkAttempt(fs, f)
    THEN Append(log, [id |-> f.id, existed |-> f.id \in fs,
                      threw |-> UnlinkFails(fs, f)])
    ELSE log

RECURSIVE LogUnlinkAll(_, _, _)
LogUnlinkAll(log, fs, s) ==
    IF s = <<>> THEN log
    ELSE IF UnlinkFails(fs, Head(s)) THEN LogUnlink(log, fs, Head(s))
    ELSE LogUnlinkAll(LogUnlink(log, fs, Head(s)), Unlink(fs, Head(s)), Tail(s))

RECURSIVE Flatten(_)
Flatten(ss) == IF ss = <<>> THEN <<>> ELSE Head(ss) \o Flatten(Tail(ss))

\* The files the catch block cleans.
CatchTargets ==
    IF options.hasFields
    THEN Flatten([i \in 1..Len(options.fields) |->
                    FilesOfField(options.fields[i].fieldName)])
    ELSE IF options.multiple THEN files
    ELSE IF Len(files) > 0 THEN <<files[1]>> ELSE <<>>

CatchSweep(fs) == UnlinkAll(fs, CatchTargets)

\* The unlinkSync calls of the catch block.
CatchSweepLog(log, fs) == LogUnlinkAll(log, fs, CatchTargets)

StringValue(s) == [kind |-> "string", val |-> s]
ArrayValue(a) == [kind |-> "array", val |-> a]

\* A result shaping that looks at the number of urls only.
FieldResultByLength(maxCount, urls) ==
    IF Len(urls) = 1 THEN StringValue(urls[1]) ELSE ArrayValue(urls)

\* "Store the URL(s) based on maxCount"
FieldResult(maxCount, urls) ==
    IF maxCount = 1 \/ Len(urls) = 1
    THEN StringValue(IF Len(urls) > 0 THEN urls[1] ELSE <<>>)
    ELSE ArrayValue(urls)

Put(map, name, value) == (name :> value) @@ map

NextCall(err, cause, fs, upl) ==
    [err |-> err, cause |-> cause, fs |-> fs, uploaded |-> upl]

MarkFatal(at) == IF fatalAt = -1 THEN at ELSE fatalAt

\* next(error) of the catch block, added to the calls made. Through
\* createExpressStorageMiddleware these are calls of the downstream next: a
\* throw of that call leaves the middleware as a rejection, which the
\* wrapper's own catch answers with one more next(error).
CatchCalls(calls, cause, fs, upl) ==
    LET made == Append(calls, NextCall(TRUE, cause, fs, upl)) IN
    IF host.nextThrows /\ host.viaExpress
    THEN Append(made, NextCall(TRUE, cause, fs, upl))
    ELSE made

\* A call of next inside the try block, made when the temp files are fs and
\* the unlinkSync calls are log. A throw of the continuation is caught by
\* the catch block, which sweeps the temp files and calls next(error).
NextInTry(err, cause, fs, log, upl) ==
    IF host.nextThrows
    THEN /\ fsFiles' = CatchSweep(fs)
         /\ unlinkLog' = CatchSweepLog(log, fs)
         /\ nextCalls' = CatchCalls(Append(nextCalls, NextCall(err, cause, fs, upl)),
                                    "next", CatchSweep(fs), upl)
    ELSE /\ fsFiles' = fs
         /\ unlinkLog' = log
         /\ nextCalls' = Append(nextCalls, NextCall(err, cause, fs, upl))

\* -------------------------------------------------------------------- Init
\* No file is being resolved against its settings.
ResolveIdle ==
    /\ resolveIn = [component |-> "off"]
    /\ resolveOut = [done |-> FALSE]

\* No storageAction call is followed.
StoreIdle ==
    /\ sConfig = [provider |-> "off"]
    /\ store = {}
    /\ sCalls = <<>>

\* No factory was constructed.
FactoryIdle ==
    /\ fConfigs = [provider |-> "off"]
    /\ fCalls = <<>>
    /\ fBackend = <<>>

\* createStorageUploadMiddleware called directly, by a host whose
\* continuation returns, whose temp files can be deleted and which does not
\* abort.
PlainHost ==
    [viaExpress |-> FALSE, nextThrows |-> FALSE, unlinkFails |-> {},
     abortable |-> FALSE]

\* No abort has been seen: at is the number of uploads started when the
\* client aborted, -1 before that.
HostIdle ==
    /\ host = PlainHost
    /\ aborted = [at |-> -1, inflight |-> {}]

\* One request only.
PairIdle ==
    /\ cur = 1
    /\ other = [pc |-> "off"]

\* No storage engine request is under way.
EngineIdle ==
    /\ eOptions = [hasFilter |-> FALSE, configs |-> <<>>, fileSizeLimit |-> 0,
                   bucket |-> TRUE]
    /\ eFiles = <<>>
    /\ eNext = 1
    /\ eh = <<>>
    /\ eUploads = <<>>

MwOptionChoices ==
    { o \in [hasFields : BOOLEAN, fields : {<<>>} \cup { <<c>> : c \in FieldConfigs }
                               \cup { <<c, d>> : c \in FieldConfigs, d \in FieldConfigs },
             multiple : BOOLEAN, hasFilter : BOOLEAN,
             limitSize : 0..1, limitFiles : 0..1, bucket : BOOLEAN,
             provider : Providers] :
        /\ WellFormedFields(o.fields)
        /\ ~o.hasFields => o.fields = <<>>
        \* the fields branch reads neither the global filter nor the limits
        /\ (o.hasFields /\ o.fields # <<>>) =>
              ~o.multiple /\ ~o.hasFilter /\ o.limitSize = 0 /\ o.limitFiles = 0
        \* the provider shows in the middleware only where uploads overlap
        /\ ((o.hasFields /\ o.fields # <<>>) \/ ~o.multiple) => o.provider = "s3" }

\* A request the route can receive; a route without a fileFilter accepts
\* every file.
RequestFits(o, fs) ==
    /\ \A i \in 1..Len(fs) :
          /\ (o.hasFields /\ o.fields # <<>>) <=> fs[i].field \in FieldNames
          /\ ~(IF o.hasFields /\ o.fields # <<>>
                THEN o.fields[1].hasFilter ELSE o.hasFilter) => fs[i].accept
          /\ o.limitSize = 0 => fs[i].size = 1
    \* upload.single() leaves one file in req.file
    /\ (~(o.hasFields /\ o.fields # <<>>) /\ ~o.multiple) => Len(fs) <= 1

MwStart ==
    /\ options \in MwOptionChoices
    /\ \E fs \in UNION { [1..n -> FileRecords] : n \in 0..MaxFiles } :
          RequestFits(options, fs) /\ files = WithIds(fs)
    /\ pc = "start"
    /\ fi = 1
    /\ ki = 1
    /\ uploadedUrls = <<>>
    /\ results = <<>>
    /\ inflight = {}
    /\ uploads = <<>>
    /\ completed = <<>>
    /\ fatalAt = -1
    /\ rejected = {}
    /\ fsFiles = {files[i].id : i \in {j \in 1..Len(files) : files[j].hasPath}}
    /\ unlinkLog = <<>>
    /\ uploadedFiles = <<>>
    /\ nextCalls = <<>>
    /\ EngineIdle
    /\ ResolveIdle
    /\ StoreIdle
    /\ FactoryIdle

\* ------------------------------------------------------------ fields mode
\* middleware.ts 58-66: enter the fields branch
MwStartFields ==
    /\ pc = "start"
    /\ FieldsMode
    /\ pc' = "field"
    /\ UNCHANGED <<engVars, sideVars>>
    /\ UNCHANGED <<options, files, fi, ki, uploadedUrls, results, inflight,
                   uploads, completed, fatalAt, rejected, fsFiles, unlinkLog,
                   uploadedFiles, nextCalls>>

\* A loop that walks options.fields from its last entry to its first.
CurConfigReversed == options.fields[Len(options.fields) + 1 - fi]

\* for (const fieldConfig of options.fields)
CurConfig == options.fields[fi]
CurFiles == FilesOfField(CurConfig.fieldName)

\* Move to the next fieldConfig, or leave the loop and call next().
AdvanceField(upl) ==
    /\ uploadedFiles' = upl
    /\ ki' = 1
    /\ uploadedUrls' = <<>>
    /\ IF fi < Len(options.fields)
       THEN /\ fi' = fi + 1
            /\ pc' = "field"
            /\ UNCHANGED <<nextCalls, fsFiles, unlinkLog>>
       ELSE /\ fi' = fi
            /\ pc' = "done"
            /\ NextInTry(FALSE, "none", fsFiles, unlinkLog, upl)

\* middleware.ts 68-69: if (!fieldFiles) continue
MwFieldAbsent ==
    /\ pc = "field"
    /\ Len(CurFiles) = 0
    /\ AdvanceField(uploadedFiles)
    /\ UNCHANGED <<engVars, sideVars>>
    /\ UNCHANGED <<options, files, results, inflight, uploads, completed,
                   fatalAt, rejected>>

\* The sweep of the catch block ends in a throw of unlinkSync.
SweepThrows(fs) ==
    LET log == CatchSweepLog(<<>>, fs) IN log # <<>> /\ log[Len(log)].threw

\* A catch block that hands on the error of its own cleanup.
CatchErrorOfCleanup(cause, fs) == IF SweepThrows(fs) THEN "cleanup" ELSE cause

\* catch (cleanupError) { console.error(...) } next(error): the error that
\* entered the catch block, whatever the sweep did
CatchError(cause, fs) == cause

\* middleware.ts 203-240: the catch block, then next(error)
CatchWith(cause, log) ==
    /\ fsFiles' = CatchSweep(fsFiles)
    /\ unlinkLog' = CatchSweepLog(log, fsFiles)
    /\ nextCalls' = CatchCalls(nextCalls, CatchError(cause, fsFiles),
                               CatchSweep(fsFiles), uploadedFiles)
    /\ pc' = "done"

\* middleware.ts 75-81: the field's filter rejects the file
MwFieldFilterReject ==
    /\ pc = "field"
    /\ ki <= Len(CurFiles)
    /\ CurConfig.hasFilter /\ ~CurFiles[ki].accept
    /\ IF UnlinkFails(fsFiles, CurFiles[ki])
       THEN /\ CatchWith("unlink", LogUnlink(unlinkLog, fsFiles, CurFiles[ki]))
            /\ UNCHANGED ki
       ELSE /\ fsFiles' = Unlink(fsFiles, CurFiles[ki])
            /\ unlinkLog' = LogUnlink(unlinkLog, fsFiles, CurFiles[ki])
            /\ ki' = ki + 1
            /\ UNCHANGED <<pc, nextCalls>>
    /\ rejected' = rejected \cup {CurFiles[ki].id}
    /\ UNCHANGED <<engVars, sideVars>>
    /\ UNCHANGED <<options, files, fi, uploadedUrls, results, inflight,
                   uploads, completed, fatalAt, uploadedFiles>>

\* middleware.ts 83-98: start the upload of the current file
MwFieldUpload ==
    /\ pc = "field"
    /\ ki <= Len(CurFiles)
    /\ ~(CurConfig.hasFilter /\ ~CurFiles[ki].accept)
    /\ IF UploadThrowsEarly(CurFiles[ki])
       THEN /\ CatchWith(UploadError(CurFiles[ki]), unlinkLog)
            /\ UNCHANGED <<uploads, inflight, fatalAt>>
       ELSE /\ uploads' = Append(uploads, CurFiles[ki].id)
            /\ inflight' = inflight \cup {CurFiles[ki].id}
            /\ pc' = "awaitField"
            /\ UNCHANGED <<fatalAt, fsFiles, unlinkLog, nextCalls>>
    /\ UNCHANGED <<engVars, sideVars>>
    /\ UNCHANGED <<options, files, fi, ki, uploadedUrls, results, rejected,
                   completed, uploadedFiles>>

\* middleware.ts 94-105: the awaited upload returns or throws
MwFieldUploadDone ==
    /\ pc = "awaitField"
    /\ \E ok \in BOOLEAN :
          IF ok
          THEN /\ uploadedUrls' =
                     Append(uploadedUrls, Location(FileNameOf(CurFiles[ki])))
               /\ IF UnlinkFails(fsFiles, CurFiles[ki])
                  THEN /\ CatchWith("unlink",
                                    LogUnlink(unlinkLog, fsFiles, CurFiles[ki]))
                       /\ UNCHANGED ki
                  ELSE /\ fsFiles' = Unlink(fsFiles, CurFiles[ki])
                       /\ unlinkLog' = LogUnlink(unlinkLog, fsFiles, CurFiles[ki])
                       /\ ki' = ki + 1
                       /\ pc' = "field"
                       /\ UNCHANGED nextCalls
               /\ UNCHANGED fatalAt
          ELSE /\ CatchWith("upload", unlinkLog)
               /\ fatalAt' = MarkFatal(Len(uploads))
               /\ UNCHANGED <<uploadedUrls, ki>>
    /\ inflight' = inflight \ {CurFiles[ki].id}
    /\ completed' = Append(completed, CurFiles[ki].id)
    /\ UNCHANGED <<engVars, sideVars>>
    /\ UNCHANGED <<options, files, fi, results, uploads, rejected, uploadedFiles>>

\* middleware.ts 108-113: all files of the field handled, store the result
MwFieldStore ==
    /\ pc = "field"
    /\ Len(CurFiles) > 0
    /\ ki > Len(CurFiles)
    /\ AdvanceField(Put(uploadedFiles, CurConfig.fieldName,
                        FieldResult(CurConfig.maxCount, uploadedUrls)))
    /\ UNCHANGED <<engVars, sideVars>>
    /\ UNCHANGED <<options, files, results, inflight, uploads, completed,
                   fatalAt, rejected>>

\* ---------------------------------------------------------- multiple mode
\* files.filter((file) => fileFilter(req, file))
FilteredFiles ==
    IF options.hasFilter THEN SelectSeq(files, LAMBDA f : f.accept) ELSE files

\* limits?.fileSize && file.size > limits.fileSize
ExceedsSizeLimit(f) == SizeExceeds(options.limitSize, f.size)

\* What the synchronous part of the async map callback does with a file:
\* throw on the size limit, have storageAction throw ("bucket", "filePath"),
\* or start the upload.
MapOutcome(f) ==
    IF ExceedsSizeLimit(f) THEN "size"
    ELSE IF UploadThrowsEarly(f) THEN UploadError(f)
    ELSE "sent"

\* The promise of a file whose map callback threw.
Rejected == [st |-> "rejected", url |-> <<>>]

\* A collection that takes each value as it arrives.
SettleInCompletionOrder(rs, i, url) ==
    LET k == CHOOSE j \in 1..Len(rs) :
                 rs[j].st = "pending" /\ \A h \in 1..(j - 1) : rs[h].st # "pending"
    IN  [rs EXCEPT ![k] = [st |-> "fulfilled", url |-> url]]

\* Promise.all keeps each value at the index of its promise.
Settle(rs, i, url) == [rs EXCEPT ![i] = [st |-> "fulfilled", url |-> url]]

AllFulfilled(rs) == \A i \in 1..Len(rs) : rs[i].st = "fulfilled"
UrlsOf(rs) == [i \in 1..Len(rs) |-> rs[i].url]
FirstRejected(rs) ==
    CHOOSE i \in 1..Len(rs) :
        rs[i].st = "rejected" /\ \A j \in 1..(i - 1) : rs[j].st # "rejected"

FirstOversize(fs) ==
    CHOOSE i \in 1..Len(fs) :
        MapOutcome(fs[i]) = "size" /\ \A j \in 1..(i - 1) : MapOutcome(fs[j]) # "size"

\* middleware.ts 125-166: filter, limits.files, then the map that starts
\* every upload before Promise.all is awaited
MwStartMultiple ==
    /\ pc = "start"
    /\ ~FieldsMode
    /\ options.multiple
    /\ LET ff == FilteredFiles
           sent == SelectSeq(ff, LAMBDA f : MapOutcome(f) = "sent")
           rs == [i \in 1..Len(ff) |->
                    IF MapOutcome(ff[i]) = "sent"
                    THEN [st |-> "pending", url |-> <<>>] ELSE Rejected]
       IN  IF Len(files) = 0
           THEN /\ NextInTry(FALSE, "none", fsFiles, unlinkLog, uploadedFiles)
                /\ pc' = "done"
                /\ UNCHANGED <<results, inflight, uploads, fatalAt, rejected,
                               uploadedFiles>>
           ELSE /\ rejected' = IF options.hasFilter
                               THEN {files[i].id : i \in {j \in 1..Len(files) : ~files[j].accept}}
                               ELSE {}
                \* limits?.files && filteredFiles.length > limits.files
                /\ IF options.limitFiles # 0 /\ Len(ff) > options.limitFiles
                   THEN /\ NextInTry(TRUE, "tooMany", fsFiles, unlinkLog, uploadedFiles)
                        /\ pc' = "done"
                        /\ UNCHANGED <<results, inflight, uploads, fatalAt,
                                       uploadedFiles>>
                   ELSE /\ results' = rs
                        /\ uploads' = uploads \o [i \in 1..Len(sent) |-> sent[i].id]
                        /\ inflight' = {sent[i].id : i \in 1..Len(sent)}
                        /\ IF \E i \in 1..Len(rs) : rs[i].st = "rejected"
                           THEN /\ CatchWith(MapOutcome(ff[FirstRejected(rs)]), unlinkLog)
                                \* the uploads the map had started when it
                                \* reached the first oversize file
                                /\ fatalAt' = IF \E i \in 1..Len(ff) : MapOutcome(ff[i]) = "size"
                                              THEN Len(SelectSeq(SubSeq(ff, 1, FirstOversize(ff)),
                                                       LAMBDA f : MapOutcome(f) = "sent"))
                                              ELSE fatalAt
                                /\ UNCHANGED uploadedFiles
                           ELSE IF Len(ff) = 0
                           THEN /\ uploadedFiles' =
                                     Put(uploadedFiles, DefaultFieldName, ArrayValue(<<>>))
                                /\ NextInTry(FALSE, "none", fsFiles, unlinkLog,
                                     Put(uploadedFiles, DefaultFieldName, ArrayValue(<<>>)))
                                /\ pc' = "done"
                                /\ UNCHANGED fatalAt
                           ELSE /\ pc' = "awaitAll"
                                /\ UNCHANGED <<fatalAt, fsFiles, unlinkLog, uploadedFiles, nextCalls>>
    /\ UNCHANGED <<engVars, sideVars>>
    /\ UNCHANGED <<options, files, fi, ki, uploadedUrls, completed>>

\* middleware.ts 152-166: one upload of the fan-out returns or throws; the
\* rest of its map callback runs, and Promise.all settles if this decides it
MwMultiUploadDone ==
    /\ pc \in {"awaitAll", "done"}
    /\ ~FieldsMode /\ options.multiple
    /\ \E i \in 1..Len(results), ok \in BOOLEAN :
          LET f == FilteredFiles[i] IN
          /\ f.id \in inflight
          /\ inflight' = inflight \ {f.id}
          /\ completed' = Append(completed, f.id)
          /\ IF ok /\ UnlinkFails(fsFiles, f)
             THEN /\ results' = [results EXCEPT ![i] = Rejected]
                  /\ IF pc = "awaitAll"
                     THEN CatchWith("unlink", LogUnlink(unlinkLog, fsFiles, f))
                     ELSE /\ unlinkLog' = LogUnlink(unlinkLog, fsFiles, f)
                          /\ UNCHANGED <<fsFiles, nextCalls, pc>>
                  /\ UNCHANGED <<uploadedFiles, fatalAt>>
             ELSE IF ok
             THEN LET rs == Settle(results, i, Location(FileNameOf(f)))
                      fs == Unlink(fsFiles, f)
                  IN  /\ results' = rs
                      /\ IF pc = "awaitAll" /\ AllFulfilled(rs)
                         THEN /\ uploadedFiles' =
                                   Put(uploadedFiles, DefaultFieldName, ArrayValue(UrlsOf(rs)))
                              /\ NextInTry(FALSE, "none", fs,
                                   LogUnlink(unlinkLog, fsFiles, f),
                                   Put(uploadedFiles, DefaultFieldName, ArrayValue(UrlsOf(rs))))
                              /\ pc' = "done"
                         ELSE /\ fsFiles' = fs
                              /\ unlinkLog' = LogUnlink(unlinkLog, fsFiles, f)
                              /\ UNCHANGED <<uploadedFiles, nextCalls, pc>>
                      /\ UNCHANGED fatalAt
             ELSE /\ results' = [results EXCEPT ![i] = Rejected]
                  /\ fatalAt' = MarkFatal(Len(uploads))
                  /\ IF pc = "awaitAll"
                     THEN CatchWith("upload", unlinkLog)
                     ELSE UNCHANGED <<fsFiles, unlinkLog, nextCalls, pc>>
                  /\ UNCHANGED uploadedFiles
    /\ UNCHANGED <<engVars, sideVars>>
    /\ UNCHANGED <<options, files, fi, ki, uploadedUrls, uploads, rejected>>

\* ------------------------------------------------------------ single mode
\* middleware.ts 168-190: req.file, filter, size limit, start the upload
MwStartSingle ==
    /\ pc = "start"
    /\ ~FieldsMode
    /\ ~options.multiple
    /\ IF Len(files) = 0
       THEN /\ NextInTry(FALSE, "none", fsFiles, unlinkLog, uploadedFiles)
            /\ pc' = "done"
            /\ UNCHANGED <<inflight, uploads, fatalAt, rejected>>
       ELSE LET file == files[1] IN
            IF options.hasFilter /\ ~file.accept
            THEN /\ rejected' = rejected \cup {file.id}
                 /\ NextInTry(TRUE, "filter", fsFiles, unlinkLog, uploadedFiles)
                 /\ pc' = "done"
                 /\ UNCHANGED <<inflight, uploads, fatalAt>>
            ELSE IF ExceedsSizeLimit(file)
            THEN /\ NextInTry(TRUE, "size", fsFiles, unlinkLog, uploadedFiles)
                 /\ fatalAt' = MarkFatal(Len(uploads))
                 /\ pc' = "done"
                 /\ UNCHANGED <<inflight, uploads, rejected>>
            ELSE IF UploadThrowsEarly(file)
            THEN /\ CatchWith(UploadError(file), unlinkLog)
                 /\ UNCHANGED <<inflight, uploads, fatalAt, rejected>>
            ELSE /\ uploads' = Append(uploads, file.id)
                 /\ inflight' = inflight \cup {file.id}
                 /\ pc' = "awaitSingle"
                 /\ UNCHANGED <<fatalAt, rejected, fsFiles, unlinkLog, nextCalls>>
    /\ UNCHANGED <<engVars, sideVars>>
    /\ UNCHANGED <<options, files, fi, ki, uploadedUrls, results, completed,
                   uploadedFiles>>

\* middleware.ts 186-202: the awaited upload returns or throws
MwSingleUploadDone ==
    /\ pc = "awaitSingle"
    /\ inflight' = {}
    /\ completed' = Append(completed, files[1].id)
    /\ \E ok \in BOOLEAN :
          IF ok /\ UnlinkFails(fsFiles, files[1])
          THEN /\ CatchWith("unlink", LogUnlink(unlinkLog, fsFiles, files[1]))
               /\ UNCHANGED <<fatalAt, uploadedFiles>>
          ELSE IF ok
          THEN LET fs == Unlink(fsFiles, files[1])
                   upl == Put(uploadedFiles, DefaultFieldName,
                              StringValue(Location(FileNameOf(files[1]))))
               IN  /\ uploadedFiles' = upl
                   /\ NextInTry(FALSE, "none", fs,
                                LogUnlink(unlinkLog, fsFiles, files[1]), upl)
                   /\ pc' = "done"
                   /\ UNCHANGED fatalAt
          ELSE /\ CatchWith("upload", unlinkLog)
               /\ fatalAt' = MarkFatal(Len(uploads))
               /\ UNCHANGED uploadedFiles
    /\ UNCHANGED <<engVars, sideVars>>
    /\ UNCHANGED <<options, files, fi, ki, uploadedUrls, results, uploads, rejected>>

\* =========================================================================
\* CloudStorageEngine (multer-storage)
\* =========================================================================
\* The streams of one request deliver at most MaxChunks data events in all.
MaxChunks == 2

\* originalname values, as sequences of characters
JpgName == <<"a", ".", "j", "p", "g">>
PngUpperName == <<"b", ".", "P", "N", "G">>
ExeName == <<"x", ".", "e", "x", "e">>

\* fieldConfigs of the two-field route: avatar takes .jpg and .png, document
\* takes .pdf
ScenarioConfigs ==
    [avatar |-> [hasAllowed |-> TRUE,
                 allowedExtensions |-> << <<".", "j", "p", "g">>, <<".", "p", "n", "g">> >>],
     document |-> [hasAllowed |-> TRUE,
                   allowedExtensions |-> << <<".", "p", "d", "f">> >>]]

\* fieldConfigs not given
NoConfigs == <<>>

\* String.prototype.toLowerCase, character by character
LowerChar(c) ==
    CASE c = "P" -> "p"
      [] c = "N" -> "n"
      [] c = "G" -> "g"
      [] c = "J" -> "j"
      [] c = "E" -> "e"
      [] c = "X" -> "x"
      [] c = "D" -> "d"
      [] c = "F" -> "f"
      [] OTHER -> c

ToLowerCase(s) == [i \in 1..Len(s) |-> LowerChar(s[i])]

DotPositions(s) == {i \in 1..Len(s) : s[i] = "."}

\* s.split(".").pop(): the text after the last ".", all of s without one
SplitPop(s) ==
    IF DotPositions(s) = {} THEN s
    ELSE LET last == CHOOSE i \in DotPositions(s) : \A j \in DotPositions(s) : j <= i
         IN  SubSeq(s, last + 1, Len(s))

\* multer-storage 358-359: the extension test of _handleFile
ExtensionAllowed(originalname, allowedExtensions) ==
    LET fileExtension == SplitPop(ToLowerCase(originalname))
    IN  \* !fileExtension || !allowedExtensions.includes(`.${fileExtension}`)
        ~(fileExtension = <<>>
          \/ ~\E k \in 1..Len(allowedExtensions) :
                  allowedExtensions[k] = <<".">> \o fileExtension)

\* this.fieldConfigs?.[file.fieldname]
FieldConfigOf(f) == eOptions.configs[f.fieldname]

\* this.fileFilter && !this.fileFilter(req, file)
GlobalFilterRejects(f) == eOptions.hasFilter /\ ~f.accept

\* fieldConfig?.allowedExtensions is set and the extension test fails
ExtensionRejects(f) ==
    /\ f.fieldname \in DOMAIN eOptions.configs
    /\ FieldConfigOf(f).hasAllowed
    /\ ~ExtensionAllowed(f.originalname, FieldConfigOf(f).allowedExtensions)

Digit(d) ==
    CASE d = 0 -> "0" [] d = 1 -> "1" [] d = 2 -> "2" [] d = 3 -> "3"
      [] d = 4 -> "4" [] d = 5 -> "5" [] d = 6 -> "6" [] d = 7 -> "7"
      [] d = 8 -> "8" [] d = 9 -> "9"

\* `${Date.now()}`: the decimal digits of the clock value
RECURSIVE Decimal(_)
Decimal(n) ==
    IF n < 10 THEN <<Digit(n)>> ELSE Decimal(n \div 10) \o <<Digit(n % 10)>>

\* `${Date.now()}-${file.originalname}`
Stamped(now, originalname) == Decimal(now) \o <<"-">> \o originalname

\* multer-storage 361-384 for the routes followed here, which set neither a
\* destination nor a generateFileName: `${Date.now()}-${file.originalname}`.
\* now is the value Date.now() returned in the call.
EngineKey(now, f) == Stamped(now, f.originalname)

\* A concatenation that puts each later chunk in front.
RECURSIVE BufferConcatReversed(_, _)
BufferConcatReversed(chunks, totalLength) ==
    IF chunks = <<>> THEN <<>>
    ELSE BufferConcatReversed(Tail(chunks), totalLength - Len(Head(chunks)))
            \o Head(chunks)

\* Buffer.concat(chunks, totalLength): the chunks one after another, cut
\* or zero-filled to totalLength
BufferConcat(chunks, totalLength) ==
    LET all == Flatten(chunks) IN
    [j \in 1..totalLength |-> IF j <= Len(all) THEN all[j] ELSE 0]

CbError(kind, field, allowed) ==
    [error |-> kind, field |-> field, allowed |-> allowed, size |-> 0,
     filename |-> <<>>, cloudKey |-> <<>>, path |-> <<>>, cloudUrl |-> <<>>]

\* callback(null, fileInfo)
CbSuccess(field, size, fileName, uploadedUrl) ==
    [error |-> "none", field |-> field, allowed |-> <<>>, size |-> size,
     filename |-> fileName, cloudKey |-> fileName,
     path |-> uploadedUrl, cloudUrl |-> uploadedUrl]

\* sizeLimit && totalSize > sizeLimit
OverLimit(total) == SizeExceeds(eOptions.fileSizeLimit, total)

RECURSIVE ChunksDelivered(_)
ChunksDelivered(n) ==
    IF n = 0 THEN 0 ELSE Len(eh[n].chunks) + ChunksDelivered(n - 1)

\* The stream of file i delivers nothing more.
StreamClosed(i) == eh[i].phase \in {"rejected", "ended", "errored"}

\* The multipart body of a request carries its files one after another; the
\* files of different requests arrive independently of each other.
PartsBeforeClosed(i) ==
    \A j \in 1..(i - 1) : eFiles[j].request = eFiles[i].request => StreamClosed(j)

\* An engine that keeps chunks and totalSize in fields of the instance.
ScopeOfInstance(i) == 1

\* const chunks = []; let totalSize = 0: locals of the _handleFile call
ScopeOf(i) == i

\* No middleware request is under way.
MwIdle ==
    /\ options = [hasFields |-> FALSE, fields |-> <<>>, multiple |-> FALSE,
                  hasFilter |-> FALSE, limitSize |-> 0, limitFiles |-> 0,
                  bucket |-> TRUE, provider |-> "s3"]
    /\ files = <<>>
    /\ pc = "off"
    /\ fi = 1
    /\ ki = 1
    /\ uploadedUrls = <<>>
    /\ results = <<>>
    /\ inflight = {}
    /\ uploads = <<>>
    /\ completed = <<>>
    /\ fatalAt = -1
    /\ rejected = {}
    /\ fsFiles = {}
    /\ unlinkLog = <<>>
    /\ uploadedFiles = <<>>
    /\ nextCalls = <<>>

\* The engine configurations explored: the two-field route with and without
\* a global filter, and routes without extension lists with a size limit
\* or without a bucket.
EngineOptionChoices ==
    { o \in [hasFilter : BOOLEAN,
             configs : {ScenarioConfigs, NoConfigs,
                        \* an avatar entry that sets no allowedExtensions
                        [avatar |-> [hasAllowed |-> FALSE, allowedExtensions |-> <<>>]]},
             \* 0: fileSizeLimit not configured
             fileSizeLimit : {0, 1, 2}, bucket : BOOLEAN] :
        /\ o.hasFilter => o.fileSizeLimit = 0 /\ o.configs \in {ScenarioConfigs, NoConfigs}
        /\ o.configs = ScenarioConfigs => o.fileSizeLimit = 0
        /\ ~o.bucket => ~o.hasFilter /\ o.fileSizeLimit = 0 /\ o.configs = NoConfigs }

EngineRequestFits(o, fs) ==
    \A i \in 1..Len(fs) :
        \* a second request is followed on the routes without filter,
        \* extension lists and size limit
        /\ fs[i].request # 1 =>
              /\ i = 2 /\ Len(fs) = 2
              /\ ~o.hasFilter /\ o.configs = NoConfigs /\ o.fileSizeLimit = 0
              /\ o.bucket
        /\ ~o.hasFilter => fs[i].accept
        \* the name is read by the extension test only
        /\ o.configs # ScenarioConfigs => fs[i].originalname = JpgName
        /\ o.hasFilter => fs[i].originalname \in {JpgName, ExeName}
                          /\ fs[i].fieldname = "avatar"
        /\ fs[i].fieldname = "document" => fs[i].originalname # PngUpperName

EngineInit ==
    /\ MwIdle
    /\ eOptions \in EngineOptionChoices
    \* request: the request a file belongs to; one engine serves them all
    /\ eFiles \in UNION { [1..n -> [fieldname : {"avatar", "document"},
                                    originalname : {JpgName, PngUpperName, ExeName,
                                                    <<"r", ".", "p", "d", "f">>},
                                    accept : BOOLEAN,
                                    request : 1..2]] : n \in 1..MaxFiles }
    /\ EngineRequestFits(eOptions, eFiles)
    /\ eNext = 1
    /\ eh = [i \in 1..Len(eFiles) |->
                [phase |-> "idle", chunks |-> <<>>, totalSize |-> 0,
                 cbs |-> <<>>, upload |-> "none",
                 fileName |-> <<>>,     \* the key _handleFile computed
                 now |-> 0,             \* Date.now() in the file's _handleFile
                 received |-> <<>>,     \* the bytes the file's stream has delivered
                 removes |-> <<>>]]     \* the _removeFile calls for the file
    /\ eUploads = <<>>
    /\ ResolveIdle /\ StoreIdle /\ FactoryIdle /\ HostIdle /\ PairIdle

\* Date.now() of multer-storage 379/383 in the call for the i-th file: a
\* millisecond clock that never runs backwards, and that two calls one after
\* the other can read within the same millisecond. The runs followed let
\* the second call fall into the millisecond of the first on the routes
\* with a bucket and without filter, extension lists and size limit.
HandleTimes(i) ==
    IF i = 1 THEN {1}
    ELSE IF /\ i = 2 /\ ~eOptions.hasFilter /\ eOptions.configs = NoConfigs
            /\ eOptions.fileSizeLimit = 0 /\ eOptions.bucket
    THEN {eh[i - 1].now, eh[i - 1].now + 1}
    ELSE {eh[i - 1].now + 1}

\* A _handleFile whose validation reports the error and then goes on to
\* attach the stream listeners (a callback without return).
EHandleFileNoReturn ==
    /\ pc = "off"
    /\ eNext <= Len(eFiles)
    /\ PartsBeforeClosed(eNext)
    /\ \E now \in HandleTimes(eNext) :
       LET f == eFiles[eNext]
           h == [eh[eNext] EXCEPT !.now = now] IN
       eh' = [eh EXCEPT ![eNext] =
                IF GlobalFilterRejects(f)
                THEN [h EXCEPT !.phase = "listening",
                               !.cbs = Append(h.cbs, CbError("filter", f.fieldname, <<>>))]
                ELSE IF ExtensionRejects(f)
                THEN [h EXCEPT !.phase = "listening",
                               !.cbs = Append(h.cbs, CbError("extension", f.fieldname,
                                                 FieldConfigOf(f).allowedExtensions))]
                ELSE [h EXCEPT !.phase = "listening",
                               !.fileName = EngineKey(now, f)]]
    /\ eNext' = eNext + 1
    /\ UNCHANGED <<eOptions, eFiles, eUploads>>
    /\ UNCHANGED <<mwVars, sideVars>>

\* multer-storage 343-405: _handleFile up to the point where its listeners
\* are attached. The multipart body carries the files one after another: the
\* call for a file comes when the stream of the file before it is closed.
EHandleFile ==
    /\ pc = "off"
    /\ eNext <= Len(eFiles)
    /\ PartsBeforeClosed(eNext)
    /\ \E now \in HandleTimes(eNext) :
       LET f == eFiles[eNext]
           h == [eh[eNext] EXCEPT !.now = now] IN
       eh' = [eh EXCEPT ![eNext] =
                IF GlobalFilterRejects(f)
                THEN [h EXCEPT !.phase = "rejected",
                               !.cbs = Append(h.cbs, CbError("filter", f.fieldname, <<>>))]
                ELSE IF ExtensionRejects(f)
                THEN [h EXCEPT !.phase = "rejected",
                               !.cbs = Append(h.cbs, CbError("extension", f.fieldname,
                                                 FieldConfigOf(f).allowedExtensions))]
                ELSE [h EXCEPT !.phase = "listening",
                               !.fileName = EngineKey(now, f)]]
    /\ eNext' = eNext + 1
    /\ UNCHANGED <<eOptions, eFiles, eUploads>>
    /\ UNCHANGED <<mwVars, sideVars>>

\* multer-storage 390-401: the "data" listener
EStreamData ==
    /\ pc = "off"
    /\ \E i \in 1..Len(eFiles), n \in {1, 2} :
          /\ eh[i].phase = "listening"
          /\ ChunksDelivered(Len(eFiles)) < MaxChunks
          \* the k-th data event of the request carries n bytes of value k
          /\ LET chunk == [j \in 1..n |-> ChunksDelivered(Len(eFiles)) + 1] IN
             eh' = [eh EXCEPT ![i].received = @ \o chunk,
                              ![ScopeOf(i)].chunks = Append(@, chunk),
                              ![ScopeOf(i)].totalSize = @ + Len(chunk),
                              ![i].cbs =
                                 IF OverLimit(eh[ScopeOf(i)].totalSize + Len(chunk))
                                 THEN Append(@, CbError("size", eFiles[i].fieldname, <<>>))
                                 ELSE @]
    /\ UNCHANGED <<eOptions, eFiles, eNext, eUploads>>
    /\ UNCHANGED <<mwVars, sideVars>>

\* A _handleFile that attaches no "error" listener: the stream's error goes
\* unanswered.
EStreamErrorNoCallback ==
    /\ pc = "off"
    /\ \E i \in 1..Len(eFiles) :
          /\ eh[i].phase = "listening"
          /\ eh' = [eh EXCEPT ![i] = [@ EXCEPT !.phase = "errored"]]
    /\ UNCHANGED <<eOptions, eFiles, eNext, eUploads>>
    /\ UNCHANGED <<mwVars, sideVars>>

\* multer-storage 403-405: the "error" listener
EStreamError ==
    /\ pc = "off"
    /\ \E i \in 1..Len(eFiles) :
          /\ eh[i].phase = "listening"
          /\ eh' = [eh EXCEPT ![i] =
                      [@ EXCEPT !.phase = "errored",
                                !.cbs = Append(@, CbError("stream", eFiles[i].fieldname, <<>>))]]
    /\ UNCHANGED <<eOptions, eFiles, eNext, eUploads>>
    /\ UNCHANGED <<mwVars, sideVars>>

\* multer-storage 407-417: the "end" listener up to the awaited upload;
\* storageAction throws at once without a bucket
EStreamEnd ==
    /\ pc = "off"
    /\ \E i \in 1..Len(eFiles) :
          /\ eh[i].phase = "listening"
          /\ IF ~eOptions.bucket
             THEN /\ eh' = [eh EXCEPT ![i] =
                             [@ EXCEPT !.phase = "ended",
                                       !.cbs = Append(@, CbError("upload", eFiles[i].fieldname, <<>>))]]
                  /\ UNCHANGED eUploads
             ELSE /\ eh' = [eh EXCEPT ![i] =
                             [@ EXCEPT !.phase = "ended", !.upload = "inflight"]]
                  /\ eUploads' = Append(eUploads,
                                    [file |-> i, size |-> eh[ScopeOf(i)].totalSize,
                                     fileName |-> eh[i].fileName,
                                     buffer |-> BufferConcat(eh[ScopeOf(i)].chunks,
                                                             eh[ScopeOf(i)].totalSize),
                                     returned |-> <<>>])
    /\ UNCHANGED <<eOptions, eFiles, eNext>>
    /\ UNCHANGED <<mwVars, sideVars>>

\* multer-storage 413-437: the awaited upload returns or throws
EUploadDone ==
    /\ pc = "off"
    /\ \E i \in 1..Len(eFiles), ok \in BOOLEAN :
          /\ eh[i].upload = "inflight"
          /\ LET k == CHOOSE u \in 1..Len(eUploads) : eUploads[u].file = i
                 uploadedUrl == Location(eUploads[k].fileName) IN
             /\ eh' = [eh EXCEPT ![i] =
                      [@ EXCEPT !.upload = "returned",
                                !.cbs = Append(@,
                                   IF ok THEN CbSuccess(eFiles[i].fieldname,
                                                eh[ScopeOf(i)].totalSize, eh[i].fileName,
                                                uploadedUrl)
                                   ELSE CbError("upload", eFiles[i].fieldname, <<>>))]]
             /\ eUploads' = [eUploads EXCEPT ![k] =
                               [@ EXCEPT !.returned = IF ok THEN uploadedUrl ELSE <<>>]]
    /\ UNCHANGED <<eOptions, eFiles, eNext>>
    /\ UNCHANGED <<mwVars, sideVars>>

\* The file object multer holds for file i: the fileInfo of the successful
\* callback merged in, none of its attributes otherwise.
CloudFileOf(i) ==
    LET ok == {c \in 1..Len(eh[i].cbs) : eh[i].cbs[c].error = "none"} IN
    IF ok = {} THEN [cloudKey |-> <<>>]
    ELSE [cloudKey |-> eh[i].cbs[CHOOSE c \in ok : TRUE].cloudKey]

\* An engine that asks the backend whatever the file carries.
HasCloudKeyAlways(file) == TRUE

\* if (file.cloudKey)
HasCloudKey(file) == file.cloudKey # <<>>

\* multer-storage 441-450: _removeFile, with the backend's answer to the
\* delete. One removal is followed per request, of any of its files, once
\* the request has failed, on the routes without filter, extension lists and
\* size limit.
ERemoveFile ==
    /\ pc = "off"
    \* The request is over and has failed: every file was handed to
    \* _handleFile, its stream is closed, no upload is awaited, and a callback
    \* has reported an error. That is when the files handled so far are
    \* removed again.
    /\ eNext > Len(eFiles)
    /\ \A j \in 1..Len(eFiles) : StreamClosed(j) /\ eh[j].upload # "inflight"
    /\ \E j \in 1..Len(eFiles) : \E c \in 1..Len(eh[j].cbs) :
          eh[j].cbs[c].error # "none"
    /\ ~eOptions.hasFilter /\ eOptions.configs = NoConfigs
    /\ eOptions.fileSizeLimit = 0
    /\ \E i \in 1..Len(eFiles), ok \in BOOLEAN :
          /\ \A h \in 1..Len(eFiles) : eh[h].removes = <<>>
          /\ LET file == CloudFileOf(i) IN
             IF HasCloudKey(file)
             THEN eh' = [eh EXCEPT ![i].removes = Append(@,
                            [deletes |-> <<file.cloudKey>>,
                             callback |-> IF ok THEN "null" ELSE "error"])]
             ELSE /\ ok
                  /\ eh' = [eh EXCEPT ![i].removes = Append(@,
                               [deletes |-> <<>>, callback |-> "null"])]
    /\ UNCHANGED <<eOptions, eFiles, eNext, eUploads>>
    /\ UNCHANGED <<mwVars, sideVars>>

EngineNext ==
    \/ EHandleFile
    \/ EStreamData
    \/ EStreamError
    \/ EStreamEnd
    \/ EUploadDone
    \/ ERemoveFile

SpecEngine == EngineInit /\ [][EngineNext]_vars

\* =========================================================================
\* Per-file decisions: filter, extension test, object key
\* =========================================================================
\* Date.now() ranges over 0..MaxClock.
MaxClock == 1

\* destination / folder values; <<>> stands for a setting that is not given
\* (or the empty string, which || and the truth tests treat alike)
GlobalPrefixes ==
    { <<"u">>, <<"u", "/">>, <<"u", "/", "/">>, <<"u", "\\">>, <<"/">> }

\* What the configured generateFileName functions return for a file.
GlobalGenerated(originalname) == <<"g", "e", "n", "-">> \o originalname
FieldGenerated(originalname) == <<"f", "l", "d", "-">> \o originalname

\* dest.replace(/[\\\/]+$/, "")
RECURSIVE StripTrailing(_)
StripTrailing(s) ==
    IF s # <<>> /\ s[Len(s)] \in {"/", "\\"}
    THEN StripTrailing(SubSeq(s, 1, Len(s) - 1))
    ELSE s

\* A key generation that asks the global generator and destination first.
EngineFileNameGlobalFirst(o, fc, f) ==
    IF o.gen THEN GlobalGenerated(f.originalname)
    ELSE IF fc.present /\ fc.gen THEN FieldGenerated(f.originalname)
    ELSE LET dest == IF o.dest # <<>> THEN o.dest
                     ELSE IF fc.present THEN fc.dest ELSE <<>>
             cleanDest == StripTrailing(dest)
         IN  IF cleanDest # <<>>
             THEN cleanDest \o <<"/">> \o Stamped(f.now, f.originalname)
             ELSE Stamped(f.now, f.originalname)

\* multer-storage 368-384: the object key of _handleFile. o is the engine's
\* options, fc the fieldConfig of the file's field (present FALSE: none);
\* o.dest is this.destination, or what it returns when it is a function
EngineFileName(o, fc, f) ==
    IF fc.present /\ fc.gen THEN FieldGenerated(f.originalname)
    ELSE IF o.gen THEN GlobalGenerated(f.originalname)
    ELSE LET dest == IF fc.present /\ fc.dest # <<>> THEN fc.dest
                     ELSE IF o.dest # <<>> THEN o.dest ELSE <<>>
             cleanDest == StripTrailing(dest)
         IN  IF cleanDest # <<>>
             THEN cleanDest \o <<"/">> \o Stamped(f.now, f.originalname)
             ELSE Stamped(f.now, f.originalname)

\* multer-storage 351-366: the validation of _handleFile
EngineValidation(o, fc, f) ==
    IF o.hasFilter /\ ~f.accept THEN "filter"
    ELSE IF fc.present /\ fc.hasAllowed
            /\ ~ExtensionAllowed(f.originalname, fc.allowedExtensions)
    THEN "extension"
    ELSE "none"

\* middleware.ts 84-91: the object key of the fields branch
FieldsFileName(o, fc, f) ==
    IF fc.gen THEN FieldGenerated(f.originalname)
    ELSE IF fc.folder # <<>>
    THEN fc.folder \o <<"/">> \o Stamped(f.now, f.originalname)
    ELSE IF f.filename # <<>> THEN f.filename ELSE f.originalname

EngineResolveInputs ==
    { r \in [component : {"engine"},
             o : [hasFilter : BOOLEAN, gen : BOOLEAN,
                  dest : GlobalPrefixes \cup {<<>>}, fileSizeLimit : 0..1],
             fc : [present : BOOLEAN, hasAllowed : BOOLEAN,
                   \* <<>> with hasAllowed FALSE is no list
                   allowedExtensions :
                       { <<>>,
                         << <<".", "j", "p", "g">> >>,
                         << <<".", "J", "P", "G">> >>,
                         << <<".", "j", "p", "g">>, <<".", "p", "n", "g">> >> },
                   gen : BOOLEAN, dest : { <<>>, <<"f">>, <<"f", "/">> }],
             f : [originalname : {JpgName, PngUpperName, ExeName,
                                  <<"a", ".", "J", "P", "G">>,
                                  <<"j", "p", "g">>, <<"a", ".">>},
                  accept : BOOLEAN,
                  now : 0..MaxClock]] :
        /\ ~r.fc.present =>
              r.fc = [present |-> FALSE, hasAllowed |-> FALSE,
                      allowedExtensions |-> <<>>, gen |-> FALSE, dest |-> <<>>]
        /\ r.fc.hasAllowed <=> r.fc.allowedExtensions # <<>>
        /\ ~r.o.hasFilter => r.f.accept
        \* the name matters to the extension test, the prefix to the key
        /\ r.fc.hasAllowed => r.o.dest \in {<<>>, <<"u">>} /\ r.f.now = 0
        /\ ~r.fc.hasAllowed => r.f.originalname \in {JpgName, <<"j", "p", "g">>} }

FieldsResolveInputs ==
    { r \in [component : {"fields"},
             o : [hasFilter : BOOLEAN, gen : BOOLEAN, limitSize : 0..1],
             fc : [hasFilter : BOOLEAN, gen : BOOLEAN,
                   folder : GlobalPrefixes \cup {<<>>}],
             f : [originalname : {JpgName}, filename : {<<>>, <<"t">>},
                  size : 1..MaxSize, acceptTop : BOOLEAN,
                  acceptField : BOOLEAN, now : 0..MaxClock]] :
        /\ ~r.o.hasFilter => r.f.acceptTop
        /\ ~r.fc.hasFilter => r.f.acceptField
        /\ r.o.limitSize = 0 => r.f.size = 1 }

ResolveInit ==
    /\ MwIdle
    /\ EngineIdle
    /\ FactoryIdle /\ HostIdle /\ PairIdle
    /\ StoreIdle
    /\ resolveIn \in EngineResolveInputs \cup FieldsResolveInputs
           \* the places where a size is tested against a limit:
           \* limits.fileSize of the middleware (single, multiple mode),
           \* fileSizeLimit of the engine
           \cup [component : {"size"}, place : {"single", "multiple", "engine"},
                 limit : [given : BOOLEAN, n : 0..MaxSize],
                 size : 0..(MaxSize + 1)]
    /\ resolveOut = [done |-> FALSE]

\* multer-storage 349-388: _handleFile up to the stream listeners
ResolveEngine ==
    /\ resolveIn.component = "engine"
    /\ ~resolveOut.done
    /\ LET o == resolveIn.o
           fc == resolveIn.fc
           f == resolveIn.f
           v == EngineValidation(o, fc, f)
       IN  resolveOut' =
               [done |-> TRUE,
                rejected |-> v,
                fileName |-> IF v = "none" THEN EngineFileName(o, fc, f) ELSE <<>>,
                sizeLimit |-> o.fileSizeLimit]
    /\ UNCHANGED <<mwVars, engVars, resolveIn, stoVars, extVars>>

\* middleware.ts 73-98: one file of the fields branch up to its upload
ResolveFields ==
    /\ resolveIn.component = "fields"
    /\ ~resolveOut.done
    /\ LET o == resolveIn.o
           fc == resolveIn.fc
           f == resolveIn.f
           \* middleware.ts 75: fieldConfig.fileFilter &&
           \* !fieldConfig.fileFilter(req, file); middleware.ts 66-98: the
           \* fields branch has no size test
           v == IF fc.hasFilter /\ ~f.acceptField THEN "filter" ELSE "none"
       IN  resolveOut' =
               [done |-> TRUE,
                rejected |-> v,
                fileName |-> IF v = "none" THEN FieldsFileName(o, fc, f) ELSE <<>>,
                sizeLimit |-> 0]
    /\ UNCHANGED <<mwVars, engVars, resolveIn, stoVars, extVars>>

\* middleware.ts 141-145, 177-179 and multer-storage 395-400: the size test
ResolveSize ==
    /\ resolveIn.component = "size"
    /\ ~resolveOut.done
    \* the value the code reads for a limit that is not given tests as false
    /\ LET limit == IF resolveIn.limit.given THEN resolveIn.limit.n ELSE 0
       IN  resolveOut' =
               [done |-> TRUE,
                rejected |-> IF SizeExceeds(limit, resolveIn.size)
                             THEN "size" ELSE "none",
                fileName |-> <<>>,
                sizeLimit |-> limit]
    /\ UNCHANGED <<mwVars, engVars, resolveIn, stoVars, extVars>>

ResolveNext ==
    \/ ResolveEngine
    \/ ResolveFields
    \/ ResolveSize

SpecResolve == ResolveInit /\ [][ResolveNext]_vars

\* =========================================================================
\* storageAction and the provider backends
\* =========================================================================
\* Largest number of storageAction calls followed.
MaxCalls == 3


NotFoundError == [code |-> "NotFound", statusCode |-> 404]
ForbiddenError == [code |-> "Forbidden", statusCode |-> 403]

ResultLocation(url) == [kind |-> "location", val |-> url]
ResultTrue == [kind |-> "true", val |-> <<>>]
Failure(message) == [kind |-> "error", val |-> message]

KeyRequired(op) == Failure(<<"key is required for operation", op>>)
FileNotFound(key) == Failure(<<"File not found: ">> \o key)
\* an error of the provider SDK, passed on as it is
Thrown(error) == Failure(<<"sdk", error.code>>)

\* What one call does: its result, the bucket afterwards, whether a provider
\* client was built and whether the backend was called.
Outcome(result, st, built, called) ==
    [result |-> result, store |-> st, clientBuilt |-> built,
     backendCalled |-> called]

\* `https://${config.bucket}.s3.amazonaws.com/${key}`
S3Url(key) == <<"https://bucket.s3.amazonaws.com", "/">> \o key

\* `https://storage.googleapis.com/${config.bucket}/${key}`
GcsUrl(key) == <<"https://storage.googleapis.com/bucket", "/">> \o key

\* container.url
ContainerUrl == <<"https://account.blob.core.windows.net/bucket">>

\* blob.url of container.getBlockBlobClient(fileName): the blob name as the
\* blob client puts it into its URL, every character of it URI-encoded
\* (encodeURIComponent)
BlobUrl(fileName) ==
    ContainerUrl \o <<"/">> \o
    Flatten([i \in 1..Len(fileName) |->
                IF fileName[i] = " " THEN <<"%", "2", "0">> ELSE <<fileName[i]>>])

\* `${container.url}/${options.key}`
AzureKeyUrl(key) == ContainerUrl \o <<"/">> \o key

\* A catch that takes every failure of headObject for a missing object.
S3HeadFailureAlwaysNotFound(error, key) == FileNotFound(key)

\* storageAction 142-147: the catch around s3.headObject
S3HeadFailure(error, key) ==
    IF error.code = "NotFound" \/ error.statusCode = 404
    THEN FileNotFound(key)
    ELSE Thrown(error)

\* The upload checks all three providers make before the backend call.
UploadArgumentError(o) ==
    IF o.fileName = <<>> THEN Failure(<<"fileName is required">>)
    ELSE IF ~o.hasData THEN Failure(<<"Either filePath or buffer is required">>)
    ELSE ResultTrue

\* storageAction 96-154: s3Action
S3Action(op, o, st, answer) ==
    IF op = "upload"
    THEN IF UploadArgumentError(o) # ResultTrue
         THEN Outcome(UploadArgumentError(o), st, TRUE, FALSE)
         ELSE IF answer # "ok" THEN Outcome(Thrown(ForbiddenError), st, TRUE, TRUE)
         ELSE Outcome(ResultLocation(S3Url(o.fileName)), st \cup {o.fileName}, TRUE, TRUE)
    ELSE IF o.key = <<>> THEN Outcome(KeyRequired(op), st, TRUE, FALSE)
    ELSE IF op = "delete"
    \* deleteObject answers success for a key without object
    THEN IF answer # "ok" THEN Outcome(Thrown(ForbiddenError), st, TRUE, TRUE)
         ELSE Outcome(ResultTrue, st \ {o.key}, TRUE, TRUE)
    ELSE IF answer # "ok"
         THEN Outcome(S3HeadFailure(ForbiddenError, o.key), st, TRUE, TRUE)
         ELSE IF o.key \notin st
         THEN Outcome(S3HeadFailure(NotFoundError, o.key), st, TRUE, TRUE)
         ELSE Outcome(ResultLocation(S3Url(o.key)), st, TRUE, TRUE)

\* storageAction 157-217: gcsAction
GcsAction(op, o, st, answer) ==
    IF op = "upload"
    THEN IF UploadArgumentError(o) # ResultTrue
         THEN Outcome(UploadArgumentError(o), st, TRUE, FALSE)
         ELSE IF answer # "ok" THEN Outcome(Thrown(ForbiddenError), st, TRUE, TRUE)
         ELSE Outcome(ResultLocation(GcsUrl(o.fileName)), st \cup {o.fileName}, TRUE, TRUE)
    ELSE IF o.key = <<>> THEN Outcome(KeyRequired(op), st, TRUE, FALSE)
    ELSE IF op = "delete"
    \* file.delete() throws the 404 of the API for a key without object
    THEN IF answer # "ok" THEN Outcome(Thrown(ForbiddenError), st, TRUE, TRUE)
         ELSE IF o.key \notin st THEN Outcome(Thrown(NotFoundError), st, TRUE, TRUE)
         ELSE Outcome(ResultTrue, st \ {o.key}, TRUE, TRUE)
    \* file.exists() answers false for a 404 and throws everything else
    ELSE IF answer # "ok" THEN Outcome(Thrown(ForbiddenError), st, TRUE, TRUE)
         ELSE IF o.key \notin st THEN Outcome(FileNotFound(o.key), st, TRUE, TRUE)
         ELSE Outcome(ResultLocation(GcsUrl(o.key)), st, TRUE, TRUE)

\* storageAction 220-273: azureAction
AzureAction(c, op, o, st, answer) ==
    IF ~c.connectionString
    THEN Outcome(Failure(<<"Azure connectionString is required in credentials">>),
                 st, FALSE, FALSE)
    ELSE IF op = "upload"
    THEN IF UploadArgumentError(o) # ResultTrue
         THEN Outcome(UploadArgumentError(o), st, TRUE, FALSE)
         ELSE IF answer # "ok" THEN Outcome(Thrown(ForbiddenError), st, TRUE, TRUE)
         ELSE Outcome(ResultLocation(BlobUrl(o.fileName)), st \cup {o.fileName}, TRUE, TRUE)
    ELSE IF o.key = <<>> THEN Outcome(KeyRequired(op), st, TRUE, FALSE)
    ELSE IF op = "delete"
    \* deleteBlob throws the 404 of the service for a key without blob
    THEN IF answer # "ok" THEN Outcome(Thrown(ForbiddenError), st, TRUE, TRUE)
         ELSE IF o.key \notin st THEN Outcome(Thrown(NotFoundError), st, TRUE, TRUE)
         ELSE Outcome(ResultTrue, st \ {o.key}, TRUE, TRUE)
    \* blob.exists() answers false for a 404 and throws everything else
    ELSE IF answer # "ok" THEN Outcome(Thrown(ForbiddenError), st, TRUE, TRUE)
         ELSE IF o.key \notin st THEN Outcome(FileNotFound(o.key), st, TRUE, TRUE)
         ELSE Outcome(ResultLocation(AzureKeyUrl(o.key)), st, TRUE, TRUE)

\* storageAction 75-93
StorageAction(c, op, o, st, answer) ==
    IF BucketMissing(c)
    THEN Outcome(Failure(<<"Bucket name is required">>), st, FALSE, FALSE)
    ELSE IF c.provider = "s3" THEN S3Action(op, o, st, answer)
    ELSE IF c.provider = "gcs" THEN GcsAction(op, o, st, answer)
    ELSE AzureAction(c, op, o, st, answer)

\* fileName / key values; <<>> stands for a value that is not given
StoreKeys == {<<"k">>, <<"a", " ", "b">>}

\* FileOptions of a call: fileName and filePath / buffer for upload, key for
\* delete and getUrl (deleteStorageFile and getStorageFileUrl pass key only)
CallOptions(op) ==
    IF op = "upload"
    THEN { o \in [fileName : StoreKeys \cup {<<>>}, hasData : BOOLEAN, key : {<<>>}] :
             o.fileName = <<>> => o.hasData }
    ELSE [fileName : {<<>>}, hasData : {FALSE}, key : StoreKeys \cup {<<>>}]

StoreInit ==
    /\ MwIdle
    /\ EngineIdle
    /\ ResolveIdle
    /\ FactoryIdle /\ HostIdle /\ PairIdle
    /\ sConfig \in [provider : Providers, bucket : BOOLEAN, connectionString : BOOLEAN]
    /\ ~sConfig.connectionString => sConfig.provider = "azure" /\ sConfig.bucket
    /\ store = {}
    /\ sCalls = <<>>

\* One call of storageAction with the answer of the backend, which serves
\* the request or refuses it (auth).
StoreCall(op) ==
    /\ sConfig.provider \in Providers
    /\ Len(sCalls) < MaxCalls
    /\ \E o \in CallOptions(op), answer \in {"ok", "forbidden"} :
          LET out == StorageAction(sConfig, op, o, store, answer) IN
          \* a call that never reaches the backend has no answer to vary
          /\ ~out.backendCalled => answer = "ok"
          /\ store' = out.store
          /\ sCalls' = Append(sCalls,
                         [op |-> op, fileName |-> o.fileName, key |-> o.key,
                          present |-> (IF op = "upload" THEN o.fileName ELSE o.key) \in store,
                          answer |-> answer, result |-> out.result,
                          clientBuilt |-> out.clientBuilt,
                          backendCalled |-> out.backendCalled])
    /\ UNCHANGED <<mwVars, engVars, resVars, sConfig, extVars>>

StoreNext ==
    \* storageAction(provider, "upload", config, {fileName, filePath})
    \/ StoreCall("upload")
    \* deleteStorageFile(provider, config, key)
    \/ StoreCall("delete")
    \* getStorageFileUrl(provider, config, key)
    \/ StoreCall("getUrl")

SpecStore == StoreInit /\ [][StoreNext]_vars

\* ----------------------------------------------------------- specification
Init == MwStart /\ HostIdle /\ PairIdle

Next ==
    \/ MwStartFields
    \/ MwFieldAbsent
    \/ MwFieldFilterReject
    \/ MwFieldUpload
    \/ MwFieldUploadDone
    \/ MwFieldStore
    \/ MwStartMultiple
    \/ MwMultiUploadDone
    \/ MwStartSingle
    \/ MwSingleUploadDone

Spec == Init /\ [][Next]_vars

\* A middleware request, or storageAction calls made directly.
SpecMwStore == (Init \/ StoreInit) /\ [][Next \/ StoreNext]_vars

\* --------------------------------------------------------------- the host
\* The middleware inside a host: called through createExpressStorageMiddleware
\* or directly, with a continuation that may throw, temp files whose
\* unlinkSync may throw, and a client that may abort the request.

\* The hosts followed: the plain one for every request, the others for the
\* requests without filter, limits or missing paths to a configured bucket,
\* with one of abort, failing unlinkSync and (wrapper or throwing
\* continuation) at a time.
HostChoices(o, fs) ==
    { h \in [viaExpress : BOOLEAN, nextThrows : BOOLEAN,
             unlinkFails : {{}} \cup {{fs[i].id} : i \in 1..Len(fs)},
             abortable : BOOLEAN] :
        /\ h # PlainHost =>
              /\ ~o.hasFilter /\ o.limitSize = 0 /\ o.limitFiles = 0 /\ o.bucket
              /\ \A i \in 1..Len(o.fields) : ~o.fields[i].hasFilter
              /\ \A i \in 1..Len(fs) : fs[i].hasPath /\ fs[i].accept
        /\ h.abortable => ~h.viaExpress /\ ~h.nextThrows /\ h.unlinkFails = {}
        /\ h.unlinkFails # {} => ~h.viaExpress /\ ~h.nextThrows }

HostInit ==
    /\ MwStart
    /\ PairIdle
    /\ host \in HostChoices(options, files)
    /\ aborted = [at |-> -1, inflight |-> {}]

\* The client aborts the request while the middleware is at work. No
\* statement of the middleware reads a signal of it.
MwAbort ==
    /\ host.abortable
    /\ aborted = [at |-> -1, inflight |-> {}]
    /\ pc \in {"start", "field", "awaitField", "awaitAll", "awaitSingle"}
    /\ aborted' = [at |-> Len(uploads), inflight |-> inflight]
    /\ UNCHANGED <<mwVars, engVars, resVars, stoVars>>
    /\ UNCHANGED <<fConfigs, fCalls, fBackend, cur, other, host>>

SpecHost == HostInit /\ [][Next \/ MwAbort]_vars

\* A request in the middleware inside a host, or files in the engine, with
\* every awaited call settling. The steps of Next are the statements of the
\* async handler up to its next await and the continuations after a backend
\* call has returned or failed; EUploadDone is the continuation of the
\* engine's awaited upload. The events of a file's stream and the client's
\* abort come from outside and are under no fairness.
SpecLive ==
    /\ HostInit \/ EngineInit
    /\ [][Next \/ MwAbort \/ EngineNext]_vars
    /\ WF_vars(Next)
    /\ WF_vars(EUploadDone)

\* ------------------------------------------------------------ two requests
\* Two requests go through the middleware one createStorageUploadMiddleware
\* call returned. The closure holds options; everything else the function
\* works on is a local of the call or a field of its req. The temp
\* directory is the same for both.

\* Files per request when two requests are followed.
MaxPairFiles == 1

\* The files of the second request: their temp paths differ from the first's.
WithIdsFrom(fs, base) == [i \in 1..Len(fs) |-> [id |-> base + i] @@ fs[i]]

\* The locals of the running call and the fields of its req.
Running ==
    [files |-> files, pc |-> pc, fi |-> fi, ki |-> ki,
     uploadedUrls |-> uploadedUrls, results |-> results, inflight |-> inflight,
     uploads |-> uploads, completed |-> completed, fatalAt |-> fatalAt,
     rejected |-> rejected, uploadedFiles |-> uploadedFiles,
     nextCalls |-> nextCalls]

\* The call of the middleware for a request that has just arrived.
Arrived(fs) ==
    [files |-> fs, pc |-> "start", fi |-> 1, ki |-> 1, uploadedUrls |-> <<>>,
     results |-> <<>>, inflight |-> {}, uploads |-> <<>>, completed |-> <<>>,
     fatalAt |-> -1, rejected |-> {}, uploadedFiles |-> <<>>,
     nextCalls |-> <<>>]

\* The requests followed in pairs: no limits, a configured bucket, every
\* file with its temp path.
PairRequests(o) ==
    { fs \in UNION { [1..n -> FileRecords] : n \in 0..MaxPairFiles } :
        /\ RequestFits(o, fs)
        /\ o.limitSize = 0 /\ o.limitFiles = 0 /\ o.bucket
        /\ \A i \in 1..Len(fs) : fs[i].hasPath }

PairInit ==
    /\ options \in MwOptionChoices
    /\ \E fa \in PairRequests(options), fb \in PairRequests(options) :
          /\ files = WithIds(fa)
          /\ other = Arrived(WithIdsFrom(fb, MaxPairFiles))
          \* every file of a pair has its temp path
          /\ fsFiles = {WithIds(fa)[i].id : i \in 1..Len(fa)}
                          \cup {WithIdsFrom(fb, MaxPairFiles)[i].id : i \in 1..Len(fb)}
    /\ cur = 1
    /\ pc = "start"
    /\ fi = 1
    /\ ki = 1
    /\ uploadedUrls = <<>>
    /\ results = <<>>
    /\ inflight = {}
    /\ uploads = <<>>
    /\ completed = <<>>
    /\ fatalAt = -1
    /\ rejected = {}
    /\ unlinkLog = <<>>
    /\ uploadedFiles = <<>>
    /\ nextCalls = <<>>
    /\ EngineIdle
    /\ ResolveIdle
    /\ StoreIdle
    /\ FactoryIdle
    /\ HostIdle

\* The running call has reached an await (or has not begun, or is through)
\* and the event loop runs a turn of the other one, which has something
\* left to do.
MwSwitch ==
    /\ other.pc # "off"
    /\ pc \in {"start", "awaitField", "awaitAll", "awaitSingle", "done"}
    /\ ~(other.pc = "done" /\ other.inflight = {})
    /\ cur' = 3 - cur
    /\ other' = Running
    /\ files' = other.files
    /\ pc' = other.pc
    /\ fi' = other.fi
    /\ ki' = other.ki
    /\ uploadedUrls' = other.uploadedUrls
    /\ results' = other.results
    /\ inflight' = other.inflight
    /\ uploads' = other.uploads
    /\ completed' = other.completed
    /\ fatalAt' = other.fatalAt
    /\ rejected' = other.rejected
    /\ uploadedFiles' = other.uploadedFiles
    /\ nextCalls' = other.nextCalls
    /\ UNCHANGED <<options, fsFiles, unlinkLog>>
    /\ UNCHANGED <<engVars, resVars, stoVars>>
    /\ UNCHANGED <<fConfigs, fCalls, fBackend, host, aborted>>

\* Two requests through the middleware, or the files of two requests
\* through the engine.
InitConcurrent ==
    \/ PairInit
    \/ EngineInit /\ \E i \in 1..Len(eFiles) : eFiles[i].request = 2

SpecConcurrent == InitConcurrent /\ [][Next \/ MwSwitch \/ EngineNext]_vars

\* ------------------------------------------------------------ the factory
\* StorageFactory (factory.ts): the methods that build an upload middleware
\* or a multer instance for one provider.

\* Calls of the factory's methods followed, and uploads made through the
\* middlewares and engines they returned.
MaxFactoryCalls == 2
MaxFactoryUses == 1

\* The options objects of a call, by their keys: none, or a mode (the
\* middleware methods) or a destination (the multer methods); the declared
\* types leave provider and config out.
FactoryOptions(method) ==
    IF method \in {"s3Upload", "gcsUpload", "azureUpload", "upload"}
    THEN {<<>>, [mode |-> "multiple"]}
    ELSE {<<>>, [destination |-> "docs"]}

\* { ...a, ...b }: the keys of both, b's values where both have the key
Spread(a, b) ==
    [k \in DOMAIN a \cup DOMAIN b |-> IF k \in DOMAIN b THEN b[k] ELSE a[k]]

\* A factory that reads the s3 config for every provider.
FactoryConfigOfS3(configs, p) == configs["s3"]

\* this.configs.s3, this.configs.gcs, this.configs.azure, this.configs[provider]
FactoryConfigOf(configs, p) == configs[p]

\* The provider a method is for; upload(provider) takes it as argument.
MethodProvider(method, arg) ==
    IF method \in {"s3Upload", "s3Multer"} THEN "s3"
    ELSE IF method \in {"gcsUpload", "gcsMulter"} THEN "gcs"
    ELSE IF method \in {"azureUpload", "azureMulter"} THEN "azure"
    ELSE arg

\* new Error("S3 configuration not provided"), ..., and in upload
\* new Error(`${provider} configuration not provided`)
NotProvided(method, p) ==
    [kind |-> "thrown",
     label |-> IF method = "upload" THEN p
               ELSE IF p = "s3" THEN "S3"
               ELSE IF p = "gcs" THEN "GCS"
               ELSE "Azure",
     message |-> "configuration not provided"]

\* createStorageUploadMiddleware(options): the closure keeps options
CreateStorageUploadMiddleware(o) == [kind |-> "middleware", options |-> o]

\* processFlexibleOptions: copies the known keys that are set
ProcessFlexibleOptions(o) ==
    [k \in DOMAIN o \cap {"destination", "generateFileName", "fileFilter",
                          "fileSizeLimit", "fieldConfigs"} |-> o[k]]

\* createS3Storage / createGCSStorage / createAzureStorage:
\* new CloudStorageEngine({ ...options, provider }), handed to multer
CreateStorage(p, o) == [kind |-> "multer", options |-> Spread(o, [provider |-> p])]

\* One method of the factory, called with options o (and provider arg).
FactoryMethod(configs, method, arg, o) ==
    LET p == MethodProvider(method, arg)
        config == FactoryConfigOf(configs, p) IN
    IF config = "none" THEN NotProvided(method, p)
    ELSE IF method \in {"s3Upload", "gcsUpload", "azureUpload", "upload"}
    THEN CreateStorageUploadMiddleware(
             Spread([provider |-> p, config |-> config], o))
    ELSE CreateStorage(p, Spread([config |-> config], ProcessFlexibleOptions(o)))

FactoryInit ==
    /\ MwIdle
    /\ EngineIdle
    /\ ResolveIdle
    /\ StoreIdle
    /\ HostIdle
    /\ PairIdle
    \* the StorageConfig objects a caller hands to the constructor, which
    \* keeps each one that is given: if (configs.s3) this.configs.s3 = ..
    /\ \E given \in [Providers -> {"configA", "configB", "none"}] :
          fConfigs = [p \in Providers |->
                         IF given[p] # "none" THEN given[p] ELSE "none"]
    /\ fCalls = <<>>
    /\ fBackend = <<>>

FactoryCall(method) ==
    /\ DOMAIN fConfigs = Providers
    /\ Len(fCalls) < MaxFactoryCalls
    /\ \E arg \in Providers, o \in FactoryOptions(method) :
          /\ method # "upload" => arg = MethodProvider(method, arg)
          /\ fCalls' = Append(fCalls,
                          [method |-> method,
                           provider |-> MethodProvider(method, arg),
                           \* a throw leaves the backend calls as they were
                           backendBefore |-> Len(fBackend),
                           result |-> FactoryMethod(fConfigs, method, arg, o)])
    /\ UNCHANGED <<mwVars, engVars, resVars, stoVars>>
    /\ UNCHANGED <<host, aborted, cur, other, fConfigs, fBackend>>

\* A request goes through what call i returned: the middleware (or the
\* engine's _handleFile) calls storageAction(provider, "upload", config, ..)
\* with the provider and config it was created with.
FactoryUse ==
    /\ Len(fBackend) < MaxFactoryUses
    /\ \E i \in 1..Len(fCalls) :
          /\ fCalls[i].result.kind # "thrown"
          /\ fBackend' = Append(fBackend,
                            [through |-> i,
                             provider |-> fCalls[i].result.options.provider,
                             config |-> fCalls[i].result.options.config])
    /\ UNCHANGED <<mwVars, engVars, resVars, stoVars>>
    /\ UNCHANGED <<host, aborted, cur, other, fConfigs, fCalls>>

FactoryNext ==
    \/ FactoryCall("s3Upload")
    \/ FactoryCall("gcsUpload")
    \/ FactoryCall("azureUpload")
    \/ FactoryCall("upload")
    \/ FactoryCall("s3Multer")
    \/ FactoryCall("gcsMulter")
    \/ FactoryCall("azureMulter")
    \/ FactoryUse

SpecFactory == FactoryInit /\ [][FactoryNext]_vars

\* ------------------------------------------------------------- properties
ConfigOf(name) ==
    CHOOSE c \in {options.fields[i] : i \in 1..Len(options.fields)} :
        c.fieldName = name

Declared(name) == \E i \in 1..Len(options.fields) : options.fields[i].fieldName = name

\* maxCount === 1 in fields mode; the single field logic with multiple false
Singular(name) ==
    IF FieldsMode THEN Declared(name) /\ ConfigOf(name).maxCount = 1
    ELSE ~options.multiple /\ name = DefaultFieldName

\* maxCount other than 1 in fields mode; the single field logic with multiple
Plural(name) ==
    IF FieldsMode THEN Declared(name) /\ ConfigOf(name).maxCount # 1
    ELSE options.multiple /\ name = DefaultFieldName

UploadStartedFor(name) ==
    \E i \in 1..Len(uploads) : files[uploads[i]].field = name

\* C1: whenever next is invoked, with or without an error, no temp file of
\* the request still exists.
C1_NoTempFileAtNext ==
    \A k \in 1..Len(nextCalls) : nextCalls[k].fs = {}

\* C3: once a file of the request has failed (size limit or upload), no
\* backend upload is started for a later file of the request.
C3_NoUploadAfterFatal ==
    fatalAt # -1 => Len(uploads) = fatalAt

\* C4: the value stored in req.uploadedFiles for a field of singular
\* cardinality is a single string, never an array.
C4_SingularIsString ==
    \A name \in DOMAIN uploadedFiles :
        Singular(name) => uploadedFiles[name].kind = "string"

\* A maxCount 1 field, or the single mode, that stored the location of its
\* one uploaded file.
C4_Witness ==
    \E name \in DOMAIN uploadedFiles :
        /\ Singular(name)
        /\ Len(SelectSeq(files, LAMBDA f : f.field = name)) = 1
        /\ UploadStartedFor(name)
        /\ uploadedFiles[name].val # <<>>

\* C5: for a field of multiple cardinality with at least one uploaded file
\* the stored value is an array, never a bare string.
C5_PluralIsArray ==
    \A name \in DOMAIN uploadedFiles :
        (Plural(name) /\ UploadStartedFor(name)) =>
            uploadedFiles[name].kind = "array"

\* C6: a file the fileFilter rejects is discarded silently: next is not
\* called with an error because of it, no upload is started for it and its
\* temp file is gone when next is called.
C6_FilterRejectionSilent ==
    /\ \A k \in 1..Len(nextCalls) :
          /\ nextCalls[k].cause # "filter"
          /\ \A id \in rejected : id \notin nextCalls[k].fs
    /\ \A id \in rejected : \A i \in 1..Len(uploads) : uploads[i] # id

\* C9: when next is called with an error, req.uploadedFiles holds no entry
\* written during this request.
C9_NoOutcomeWithError ==
    \A k \in 1..Len(nextCalls) :
        nextCalls[k].err => DOMAIN nextCalls[k].uploaded = {}

\* The files whose locations the stored array of a field has to list, in
\* the order req.files gives them.
ExpectedFiles(name) ==
    IF FieldsMode
    THEN SelectSeq(files, LAMBDA f :
            f.field = name /\ ~(ConfigOf(name).hasFilter /\ ~f.accept))
    ELSE SelectSeq(files, LAMBDA f : ~(options.hasFilter /\ ~f.accept))

\* C10: a stored array lists the locations in the order of the files in
\* req.files, whatever the order in which the uploads return.
C10_ResultOrder ==
    \A name \in DOMAIN uploadedFiles :
        uploadedFiles[name].kind = "array" =>
            uploadedFiles[name].val =
                [i \in 1..Len(ExpectedFiles(name)) |->
                    Location(FileNameOf(ExpectedFiles(name)[i]))]

\* Multiple mode stored two locations although the upload started second
\* returned first.
C10_Witness ==
    /\ ~FieldsMode /\ options.multiple
    /\ DefaultFieldName \in DOMAIN uploadedFiles
    /\ Len(uploadedFiles[DefaultFieldName].val) >= 2
    /\ Len(completed) >= 2
    /\ completed[1] = uploads[2]

\* ------------------------------------------------- properties of the engine
UploadedByEngine(i) == \E k \in 1..Len(eUploads) : eUploads[k].file = i

\* C2: once the bytes accumulated from a file's stream exceed fileSizeLimit,
\* the backend upload is never invoked for that file, whatever data and end
\* events follow.
C2_NoUploadPastLimit ==
    \A k \in 1..Len(eUploads) : ~OverLimit(eUploads[k].size)

\* C7: a file the global filter rejects, or whose extension is not in the
\* allowedExtensions of its field, gets callback(error) (for the extension,
\* an error naming the field and the allowed set), no stream listener, no
\* byte consumed and no backend upload.
C7_RejectedBeforeStream ==
    \A i \in 1..Len(eFiles) :
        LET f == eFiles[i] IN
        (eh[i].phase # "idle" /\ (GlobalFilterRejects(f) \/ ExtensionRejects(f))) =>
            /\ eh[i].phase = "rejected"
            /\ eh[i].chunks = <<>>
            /\ eh[i].totalSize = 0
            /\ Len(eh[i].cbs) = 1
            /\ eh[i].cbs[1].error \in {"filter", "extension"}
            /\ ~GlobalFilterRejects(f) =>
                  /\ eh[i].cbs[1].error = "extension"
                  /\ eh[i].cbs[1].field = f.fieldname
                  /\ eh[i].cbs[1].allowed = eOptions.configs[f.fieldname].allowedExtensions
            /\ ~UploadedByEngine(i)

\* Every file was handled, one was turned away for its extension and
\* another one went through to the backend.
C7_Witness ==
    /\ eNext > Len(eFiles)
    /\ \E i \in 1..Len(eFiles) :
          /\ ExtensionRejects(eFiles[i])
          /\ eh[i].cbs = <<CbError("extension", eFiles[i].fieldname,
                                   eOptions.configs[eFiles[i].fieldname].allowedExtensions)>>
    /\ \E j \in 1..Len(eFiles) : UploadedByEngine(j) /\ eh[j].upload = "returned"

\* The two-field route, a request whose avatar file is an .exe and whose
\* other files are .pdf documents.
ExeAvatarRequest ==
    /\ eOptions.configs = ScenarioConfigs
    /\ \E i \in 1..Len(eFiles) :
          /\ eFiles[i].fieldname = "avatar"
          /\ eFiles[i].originalname = ExeName
          /\ \A j \in 1..Len(eFiles) :
                j # i => eFiles[j].fieldname = "document" /\ eFiles[j].originalname = <<"r", ".", "p", "d", "f">>

\* C8: with an .exe in avatar the request fails with the extension error and
\* no backend upload occurs for any file of either field, in whichever
\* order the files arrive.
C8_NoUploadWithExeAvatar ==
    ExeAvatarRequest =>
        /\ eUploads = <<>>
        /\ \A i \in 1..Len(eFiles) :
              (eFiles[i].fieldname = "avatar" /\ eh[i].phase # "idle") =>
                  /\ Len(eh[i].cbs) = 1
                  /\ eh[i].cbs[1].error \in {"filter", "extension"}

\* ------------------------------------------------ fields mode, upload order
IsPrefix(a, b) == Len(a) <= Len(b) /\ SubSeq(b, 1, Len(a)) = a

IdsOf(fs) == [i \in 1..Len(fs) |-> fs[i].id]

\* The files of the declared fields that their field's filter lets through,
\* in declared field order and, within a field, in arrival order.
ExpectedUploadOrder ==
    Flatten([i \in 1..Len(options.fields) |->
                IdsOf(ExpectedFiles(options.fields[i].fieldName))])

LastNextOk ==
    /\ pc = "done"
    /\ Len(nextCalls) > 0
    /\ ~nextCalls[Len(nextCalls)].err

\* C11: in fields mode the uploads are started one at a time, in declared
\* field order and arrival order within a field, whatever the order of the
\* files in req.files; when every upload succeeds each accepted file of a
\* declared field was uploaded exactly once, a maxCount 1 field holds its
\* location and a field with several files holds their locations in order.
C11_FieldsSequentialOrder ==
    FieldsMode =>
        /\ Cardinality(inflight) <= 1
        /\ IsPrefix(uploads, ExpectedUploadOrder)
        /\ LastNextOk =>
              /\ uploads = ExpectedUploadOrder
              /\ \A i \in 1..Len(options.fields) :
                    LET c == options.fields[i]
                        ef == ExpectedFiles(c.fieldName)
                    IN  /\ (c.maxCount = 1 /\ Len(ef) >= 1) =>
                              uploadedFiles[c.fieldName] =
                                  StringValue(Location(FileNameOf(ef[1])))
                        /\ (c.maxCount # 1 /\ Len(ef) >= 2) =>
                              uploadedFiles[c.fieldName] =
                                  ArrayValue([k \in 1..Len(ef) |->
                                                 Location(FileNameOf(ef[k]))])

\* Two declared fields whose files arrive in the opposite order: the file
\* that arrived second was uploaded first, and next was called without error.
C11_Witness ==
    /\ FieldsMode
    /\ Len(options.fields) = 2
    /\ Len(files) = 2
    /\ files[1].field = options.fields[2].fieldName
    /\ files[2].field = options.fields[1].fieldName
    /\ LastNextOk
    /\ uploads = <<2, 1>>
    /\ DOMAIN uploadedFiles = FieldNames

\* ------------------------------------ properties of the per-file decisions
Resolved(component) ==
    resolveIn.component = component /\ resolveOut.done

\* The destination prefix in force when no generator applies: the field's
\* destination before the global one (engine), the field's folder (fields).
PrefixInForce ==
    IF resolveIn.component = "engine"
    THEN IF resolveIn.fc.present /\ resolveIn.fc.dest # <<>>
         THEN resolveIn.fc.dest ELSE resolveIn.o.dest
    ELSE resolveIn.fc.folder

NoGeneratorConfigured ==
    /\ ~resolveIn.o.gen
    /\ ~resolveIn.fc.gen

\* C12: with no filename generator and a destination prefix (one that is
\* more than separators), the object key is the prefix without its trailing
\* separators, one "/", then timestamp-originalname; in the engine
\* (destination) and in the fields branch of the middleware (folder).
C12_OneSeparatorAfterPrefix ==
    ((Resolved("engine") \/ Resolved("fields"))
        /\ resolveOut.rejected = "none"
        /\ NoGeneratorConfigured
        /\ StripTrailing(PrefixInForce) # <<>>) =>
            resolveOut.fileName =
                StripTrailing(PrefixInForce) \o <<"/">>
                    \o Stamped(resolveIn.f.now, resolveIn.f.originalname)

\* C13: where a field and the global level both set a property, the field's
\* value is applied: generateFileName and destination in the engine,
\* fileFilter and generateFileName in the fields branch of the middleware.
C13_FieldSettingWins ==
    /\ (Resolved("engine") /\ resolveOut.rejected = "none"
            /\ resolveIn.fc.present) =>
          /\ (resolveIn.fc.gen /\ resolveIn.o.gen) =>
                resolveOut.fileName = FieldGenerated(resolveIn.f.originalname)
          /\ (NoGeneratorConfigured /\ resolveIn.fc.dest # <<>>
                  /\ resolveIn.o.dest # <<>>) =>
                IsPrefix(StripTrailing(resolveIn.fc.dest) \o <<"/">>
                             \o Decimal(resolveIn.f.now),
                         resolveOut.fileName)
    /\ Resolved("fields") =>
          /\ (resolveIn.fc.hasFilter /\ resolveIn.o.hasFilter) =>
                (resolveOut.rejected = "filter" <=> ~resolveIn.f.acceptField)
          /\ (resolveIn.fc.gen /\ resolveIn.o.gen
                  /\ resolveOut.rejected = "none") =>
                resolveOut.fileName = FieldGenerated(resolveIn.f.originalname)

\* The engine resolved a file of a field that sets a destination and a
\* generator while the global level sets both too, and took the field's.
C13_Witness ==
    /\ Resolved("engine")
    /\ resolveIn.fc.present
    /\ resolveIn.fc.gen /\ resolveIn.o.gen
    /\ resolveIn.fc.dest # <<>> /\ resolveIn.o.dest # <<>>
    /\ resolveOut.fileName = FieldGenerated(resolveIn.f.originalname)

\* C14: a field without its own value of a property gets the global value:
\* in the engine the global fileFilter, generateFileName / destination and
\* fileSizeLimit; in the fields branch of the middleware the top-level
\* fileFilter, generateFileName and limits.
C14_GlobalAppliesWithoutOverride ==
    /\ Resolved("engine") =>
          /\ (resolveIn.o.hasFilter /\ ~resolveIn.f.accept) =>
                resolveOut.rejected = "filter"
          /\ resolveOut.sizeLimit = resolveIn.o.fileSizeLimit
          /\ (resolveOut.rejected = "none" /\ ~resolveIn.fc.gen) =>
                /\ resolveIn.o.gen =>
                      resolveOut.fileName = GlobalGenerated(resolveIn.f.originalname)
                /\ (~resolveIn.o.gen /\ resolveIn.fc.dest = <<>>
                        /\ StripTrailing(resolveIn.o.dest) # <<>>) =>
                      IsPrefix(StripTrailing(resolveIn.o.dest) \o <<"/">>
                                   \o Decimal(resolveIn.f.now),
                               resolveOut.fileName)
    /\ Resolved("fields") =>
          /\ (~resolveIn.fc.hasFilter /\ resolveIn.o.hasFilter
                  /\ ~resolveIn.f.acceptTop) =>
                resolveOut.rejected = "filter"
          /\ (resolveIn.o.limitSize # 0
                  /\ resolveIn.f.size > resolveIn.o.limitSize) =>
                resolveOut.rejected # "none"
          /\ (resolveOut.rejected = "none" /\ ~resolveIn.fc.gen
                  /\ resolveIn.o.gen) =>
                resolveOut.fileName = GlobalGenerated(resolveIn.f.originalname)

\* The extension of a name: the text after its last ".", with a leading ".";
\* a name without "." has none.
HasExtension(originalname) == DotPositions(originalname) # {}
ExtensionOf(originalname) ==
    LET dots == DotPositions(originalname)
        last == CHOOSE i \in dots : \A j \in dots : j <= i
    IN  <<".">> \o SubSeq(originalname, last + 1, Len(originalname))

MatchesIgnoringCase(originalname, allowedExtensions) ==
    /\ HasExtension(originalname)
    /\ \E k \in 1..Len(allowedExtensions) :
          ToLowerCase(allowedExtensions[k]) = ToLowerCase(ExtensionOf(originalname))

\* C15: with allowedExtensions set for the field, _handleFile accepts a file
\* exactly when the extension of originalname equals an entry of the list,
\* both compared without regard to case; a name without "." is rejected.
C15_ExtensionIgnoringCase ==
    (Resolved("engine") /\ resolveIn.fc.present /\ resolveIn.fc.hasAllowed
        /\ ~(resolveIn.o.hasFilter /\ ~resolveIn.f.accept)) =>
            (resolveOut.rejected = "none" <=>
                MatchesIgnoringCase(resolveIn.f.originalname,
                                    resolveIn.fc.allowedExtensions))

\* ------------------------------------------- properties of storageAction
ConfigComplete ==
    /\ sConfig.provider \in Providers
    /\ sConfig.bucket
    /\ sConfig.connectionString

\* Between calls i and j no call of operation op on key k went through.
NoneBetween(i, j, op, k) ==
    \A h \in (i + 1)..(j - 1) :
        ~(/\ sCalls[h].op = op
          /\ (IF op = "upload" THEN sCalls[h].fileName ELSE sCalls[h].key) = k
          /\ sCalls[h].result.kind # "error")

\* C16: for each provider, getUrl of a key whose upload returned location L
\* returns the same L, and getUrl of a key whose delete succeeded fails with
\* "File not found" (the backend answering).
C16_RoundTrip ==
    ConfigComplete =>
        \A i, j \in 1..Len(sCalls) :
            (i < j /\ sCalls[j].op = "getUrl" /\ sCalls[j].answer = "ok") =>
                /\ (/\ sCalls[i].op = "upload"
                    /\ sCalls[i].result.kind = "location"
                    /\ sCalls[j].key = sCalls[i].fileName
                    /\ NoneBetween(i, j, "delete", sCalls[j].key)) =>
                        sCalls[j].result = sCalls[i].result
                /\ (/\ sCalls[i].op = "delete"
                    /\ sCalls[i].result = ResultTrue
                    /\ sCalls[j].key = sCalls[i].key
                    /\ NoneBetween(i, j, "upload", sCalls[j].key)) =>
                        sCalls[j].result = FileNotFound(sCalls[j].key)

\* C17: delete of a key the backend does not hold fails with a not-found
\* error, for every provider; it does not return true.
C17_DeleteMissingFails ==
    ConfigComplete =>
        \A k \in 1..Len(sCalls) :
            (/\ sCalls[k].op = "delete"
             /\ sCalls[k].key # <<>>
             /\ ~sCalls[k].present
             /\ sCalls[k].answer = "ok") =>
                sCalls[k].result \in
                    {FileNotFound(sCalls[k].key), Thrown(NotFoundError)}

\* C18: getUrl returns a location only for an object the existence check
\* reports present, fails with "File not found: <key>" for an absent one,
\* and passes any other failure of the check on as that failure.
C18_GetUrlExistence ==
    ConfigComplete =>
        \A k \in 1..Len(sCalls) :
            (sCalls[k].op = "getUrl" /\ sCalls[k].key # <<>>) =>
                /\ sCalls[k].result.kind = "location" <=>
                       (sCalls[k].present /\ sCalls[k].answer = "ok")
                /\ (~sCalls[k].present /\ sCalls[k].answer = "ok") =>
                       sCalls[k].result = FileNotFound(sCalls[k].key)
                /\ sCalls[k].answer = "forbidden" =>
                       sCalls[k].result = Thrown(ForbiddenError)

\* On S3 the existence check of an uploaded key was refused and the refusal
\* came back; a later check of a key without object gave not-found.
C18_Witness ==
    /\ ConfigComplete
    /\ sConfig.provider = "s3"
    /\ \E i, j \in 1..Len(sCalls) :
          /\ i < j
          /\ sCalls[i].op = "getUrl" /\ sCalls[i].present
          /\ sCalls[i].answer = "forbidden"
          /\ sCalls[i].result = Thrown(ForbiddenError)
          /\ sCalls[j].op = "getUrl" /\ ~sCalls[j].present
          /\ sCalls[j].result = FileNotFound(sCalls[j].key)

\* ------------------------------------------------- config without a bucket
\* Some stored value of req.uploadedFiles holds a location.
SomeLocationStored ==
    \E name \in DOMAIN uploadedFiles : uploadedFiles[name].val # <<>>

\* The one file of a single mode request gets as far as storageAction.
SingleFileReachesUpload ==
    /\ ~FieldsMode /\ ~options.multiple
    /\ Len(files) = 1
    /\ ~(options.hasFilter /\ ~files[1].accept)
    /\ ~ExceedsSizeLimit(files[1])

\* C19: with a config without bucket every storageAction call, whatever the
\* provider and the operation, fails with "Bucket name is required" before
\* a provider client is built or the backend called; a middleware request
\* with such a config starts no backend upload, stores no location, and the
\* file that reaches storageAction brings next(error) with that error.
C19_BucketRequired ==
    /\ (sConfig.provider \in Providers /\ ~sConfig.bucket) =>
          \A k \in 1..Len(sCalls) :
              /\ sCalls[k].result = Failure(<<"Bucket name is required">>)
              /\ ~sCalls[k].clientBuilt
              /\ ~sCalls[k].backendCalled
    /\ (pc # "off" /\ ~options.bucket) =>
          /\ uploads = <<>>
          /\ inflight = {}
          /\ ~SomeLocationStored
          /\ \A k \in 1..Len(nextCalls) :
                nextCalls[k].cause \notin {"upload", "filePath"}
          /\ (pc = "done" /\ SingleFileReachesUpload) =>
                /\ Len(nextCalls) = 1
                /\ nextCalls[1].err
                /\ nextCalls[1].cause = "bucket"

\* A single mode request with a file and a config without bucket ended in
\* next(error) with the bucket error.
C19_Witness ==
    /\ pc = "done"
    /\ ~options.bucket
    /\ SingleFileReachesUpload
    /\ files[1].hasPath
    /\ nextCalls = <<NextCall(TRUE, "bucket", {}, <<>>)>>

\* ------------------------------------------------------ temp-file release
\* C20: within one request unlinkSync is called at most once for a temp
\* file and only for a path that exists: the sweep of the catch block, run
\* after some files were deleted one by one, skips those.
C20_UnlinkAtMostOnce ==
    /\ \A i \in 1..Len(unlinkLog) : unlinkLog[i].existed
    /\ \A i, j \in 1..Len(unlinkLog) :
          i # j => unlinkLog[i].id # unlinkLog[j].id

\* Fields mode: the first upload returned and its temp file was deleted, the
\* second failed, and the sweep over both files deleted the second one only.
C20_Witness ==
    /\ FieldsMode
    /\ pc = "done"
    /\ Len(nextCalls) = 1 /\ nextCalls[1].err
    /\ Len(completed) = 2
    /\ Len(unlinkLog) = 2
    /\ unlinkLog[1].id = completed[1]
    /\ unlinkLog[2].id = completed[2]
    /\ \A i \in 1..2 : \E k \in 1..Len(CatchTargets) : CatchTargets[k].id = completed[i]

\* ------------------------------------------------- callback of _handleFile
\* C30: over all stream events of a file (data past the size limit, error,
\* end) _handleFile calls its callback at most once, and never with a
\* success result after a call with an error.
C30_CallbackAtMostOnce ==
    \A i \in 1..Len(eFiles) :
        /\ Len(eh[i].cbs) <= 1
        /\ \A j, k \in 1..Len(eh[i].cbs) :
              (j < k /\ eh[i].cbs[j].error # "none") => eh[i].cbs[k].error # "none"

\* ------------------------------------------------------------ size limit
\* C25: with a limit n >= 0 configured, 0 included, a file is rejected for
\* its size exactly when the size is greater than n (n itself is accepted,
\* n + 1 rejected); in the middleware's single and multiple mode and in the
\* engine.
C25_RejectedIffAboveLimit ==
    (Resolved("size") /\ resolveIn.limit.given) =>
        (resolveOut.rejected = "size" <=> resolveIn.size > resolveIn.limit.n)

\* ------------------------------------------------------------ the factory
\* C24: a factory method for a provider whose config was not given throws
\* '<provider> configuration not provided' at creation, and no backend call
\* was made by then; when the config was given, every upload through what
\* the method returned goes to exactly that provider with exactly that config.
ProviderLabel(p) ==
    IF p = "s3" THEN {"s3", "S3"}
    ELSE IF p = "gcs" THEN {"gcs", "GCS"}
    ELSE {"azure", "Azure"}

C24_FactoryConfig ==
    /\ \A i \in 1..Len(fCalls) :
          LET c == fCalls[i] IN
          IF fConfigs[c.provider] = "none"
          THEN /\ c.result.kind = "thrown"
               /\ c.result.label \in ProviderLabel(c.provider)
               /\ c.result.message = "configuration not provided"
               /\ \A b \in 1..Len(fBackend) : fBackend[b].through # i
          ELSE c.result.kind # "thrown"
    /\ \A b \in 1..Len(fBackend) :
          /\ fBackend[b].provider = fCalls[fBackend[b].through].provider
          /\ fBackend[b].config = fConfigs[fBackend[b].provider]
          /\ fBackend[b].config # "none"

C24_Witness ==
    /\ \E i \in 1..Len(fCalls) : fCalls[i].result.kind = "thrown"
    /\ \E b \in 1..Len(fBackend) :
          /\ fBackend[b].provider = "gcs"
          /\ fConfigs["s3"] # fConfigs["gcs"]

\* ------------------------------------------------- fileInfo of _handleFile
SuccessOf(i) == {c \in 1..Len(eh[i].cbs) : eh[i].cbs[c].error = "none"}
UploadsOf(i) == {k \in 1..Len(eUploads) : eUploads[k].file = i}

\* C26: when _handleFile succeeds the reported size is the number of bytes
\* the file's stream delivered and the length of the buffer handed to the
\* backend upload, and that buffer is the delivered bytes in arrival order.
C26_SizeAndBuffer ==
    \A i \in 1..Len(eFiles) : \A c \in SuccessOf(i) :
        /\ eh[i].cbs[c].size = Len(eh[i].received)
        /\ \A k \in UploadsOf(i) :
              /\ eh[i].cbs[c].size = Len(eUploads[k].buffer)
              /\ eUploads[k].buffer = eh[i].received

C26_Witness ==
    \E i \in 1..Len(eFiles) :
        /\ SuccessOf(i) # {}
        /\ Len(eh[i].chunks) = 2
        /\ eh[i].received[1] # eh[i].received[Len(eh[i].received)]
        /\ Len(eh[i].chunks[1]) # Len(eh[i].chunks[2])

\* C27: after a successful _handleFile cloudKey and filename are the key
\* handed to the backend upload, path and cloudUrl the location the upload
\* returned; _removeFile for that file makes exactly one backend delete, for
\* that cloudKey; for a file without cloudKey it makes no backend call and
\* reports success.
C27_KeyAndRemove ==
    \A i \in 1..Len(eFiles) :
        /\ \A c \in SuccessOf(i) :
              /\ UploadsOf(i) # {}
              /\ \A k \in UploadsOf(i) :
                    /\ eh[i].cbs[c].cloudKey = eUploads[k].fileName
                    /\ eh[i].cbs[c].filename = eUploads[k].fileName
                    /\ eh[i].cbs[c].path = eUploads[k].returned
                    /\ eh[i].cbs[c].cloudUrl = eUploads[k].returned
                    /\ eUploads[k].returned # <<>>
        /\ \A r \in 1..Len(eh[i].removes) :
              IF SuccessOf(i) # {}
              THEN \A k \in UploadsOf(i) :
                       eh[i].removes[r].deletes = <<eUploads[k].fileName>>
              ELSE /\ eh[i].removes[r].deletes = <<>>
                   /\ eh[i].removes[r].callback = "null"

C27_Witness ==
    /\ Len(eFiles) = 2
    /\ SuccessOf(1) # {} /\ SuccessOf(2) = {}
    /\ eh[1].removes = <<[deletes |-> <<eh[1].fileName>>, callback |-> "null"]>>
    /\ eh[2].fileName # <<>> /\ eh[1].fileName # eh[2].fileName

\* ---------------------------------------------------------------- the host
\* The locations a req.uploadedFiles map holds.
UrlsOfValue(v) ==
    IF v.kind = "string" THEN {v.val} ELSE {v.val[i] : i \in 1..Len(v.val)}

AttachedLocations(upl) == UNION {UrlsOfValue(upl[n]) : n \in DOMAIN upl}

\* C22: after the host request is aborted the middleware starts no further
\* backend upload for it, has deleted its temp files when it is through, and
\* does not attach the results of the uploads in flight at the abort.
C22_AbortObserved ==
    aborted.at >= 0 =>
        /\ Len(uploads) = aborted.at
        /\ (pc = "done" /\ inflight = {}) => fsFiles = {}
        /\ \A id \in aborted.inflight :
              Location(id) \notin AttachedLocations(uploadedFiles)

DeclaredFields == {options.fields[i].fieldName : i \in 1..Len(options.fields)}

\* C23: through createExpressStorageMiddleware in fields mode, when the
\* downstream next is called without error every file under a declared
\* field has been uploaded, its temp file is deleted and its location is in
\* uploadedFiles under its field name.
C23_ExpressFieldsAttached ==
    (host.viaExpress /\ FieldsMode) =>
        \A k \in 1..Len(nextCalls) :
            ~nextCalls[k].err =>
                \A i \in 1..Len(files) :
                    files[i].field \in DeclaredFields =>
                        /\ \E u \in 1..Len(uploads) : uploads[u] = files[i].id
                        /\ files[i].id \notin nextCalls[k].fs
                        /\ files[i].field \in DOMAIN nextCalls[k].uploaded
                        /\ Location(FileNameOf(files[i])) \in
                              UrlsOfValue(nextCalls[k].uploaded[files[i].field])

\* C28: when an upload fails and the sweep of the catch block then fails on
\* a temp file, next is called once more, with the upload's error.
C28_CleanupErrorSwallowed ==
    [][(pc # "done" /\ fatalAt = -1 /\ fatalAt' # -1 /\ SweepThrows(fsFiles)) =>
          /\ Len(nextCalls') = Len(nextCalls) + 1
          /\ nextCalls'[Len(nextCalls')].err
          /\ nextCalls'[Len(nextCalls')].cause = "upload"]_vars

C28_Witness ==
    /\ pc = "done"
    /\ fatalAt # -1
    /\ \E i \in 1..Len(unlinkLog) : unlinkLog[i].threw
    /\ fsFiles # {}
    /\ Len(nextCalls) = 1 /\ nextCalls[1].cause = "upload"

\* C29: on every path, the one where the continuation throws included, next
\* (through the Express wrapper: the downstream next) is called exactly once.
C29_NextExactlyOnce ==
    /\ Len(nextCalls) <= 1
    /\ pc = "done" => Len(nextCalls) = 1

\* ------------------------------------------------------------ two requests
OwnIds(fs) == {fs[i].id : i \in 1..Len(fs)}

\* The files of a request that were not rejected by a filter, of one field.
Kept(r, name) ==
    SelectSeq(r.files, LAMBDA f : f.field = name /\ f.id \notin r.rejected)

LocationsOf(fs) == [i \in 1..Len(fs) |-> Location(FileNameOf(fs[i]))]

\* The outcome map of a request that ran alone and got through without
\* error, from its own files.
RECURSIVE FieldsOutcome(_, _)
FieldsOutcome(r, n) ==
    IF n = 0 THEN <<>>
    ELSE LET c == options.fields[n] IN
         IF \E i \in 1..Len(r.files) : r.files[i].field = c.fieldName
         THEN Put(FieldsOutcome(r, n - 1), c.fieldName,
                  FieldResult(c.maxCount, LocationsOf(Kept(r, c.fieldName))))
         ELSE FieldsOutcome(r, n - 1)

OutcomeAlone(r) ==
    IF FieldsMode THEN FieldsOutcome(r, Len(options.fields))
    ELSE IF Len(r.files) = 0 THEN <<>>
    ELSE IF options.multiple
    THEN Put(<<>>, DefaultFieldName, ArrayValue(LocationsOf(Kept(r, DefaultFieldName))))
    ELSE Put(<<>>, DefaultFieldName, StringValue(Location(FileNameOf(r.files[1]))))

\* The locations in a request's outcome map; a field whose files were all
\* rejected holds the empty string.
Attached(r) == AttachedLocations(r.uploadedFiles) \ {<<>>}

Undisturbed(r) ==
    /\ \A u \in 1..Len(r.uploads) : r.uploads[u] \in OwnIds(r.files)
    /\ Attached(r) \subseteq
          {Location(FileNameOf(r.files[i])) : i \in 1..Len(r.files)}
    /\ (r.pc = "done" /\ Len(r.nextCalls) = 1 /\ ~r.nextCalls[1].err) =>
          /\ r.uploadedFiles = OutcomeAlone(r)
          /\ r.nextCalls[1].uploaded = OutcomeAlone(r)
          /\ \A u \in 1..Len(r.uploads) : r.uploads[u] \notin fsFiles

\* C21: two requests through one middleware, and the files of two requests
\* through one engine, do not disturb each other under any interleaving: a
\* request starts uploads and attaches locations for its own files only and
\* ends with the outcome map of its own files, a turn of one request deletes
\* no temp file of the other, and a file's chunk list and byte counter hold
\* what its own stream delivered.
C21_NoInterference ==
    /\ [](other.pc # "off" => Undisturbed(Running) /\ Undisturbed(other))
    /\ [][(other.pc # "off" /\ cur' = cur) =>
             (fsFiles \ fsFiles') \subseteq OwnIds(files)]_vars
    /\ [](\A i \in 1..Len(eFiles) :
             /\ Flatten(eh[i].chunks) = eh[i].received
             /\ eh[i].totalSize = Len(eh[i].received))

\* Both requests are through, each with its own file attached, after the
\* second one overtook the first.
C21_Witness ==
    /\ other.pc = "done" /\ pc = "done"
    /\ cur = 1
    /\ Len(files) = 1 /\ Len(other.files) = 1
    /\ AttachedLocations(uploadedFiles) = {Location(FileNameOf(files[1]))}
    /\ AttachedLocations(other.uploadedFiles) = {Location(FileNameOf(other.files[1]))}
    /\ fsFiles = {}

\* --------------------------------------------- cleanup of the mode that ran
\* The files the branch taken in the try block works on: the files of the
\* declared fields, req.files, or req.file.
HandledFiles ==
    IF FieldsMode
    THEN {f \in {files[i] : i \in 1..Len(files)} :
             \E c \in 1..Len(options.fields) : options.fields[c].fieldName = f.field}
    ELSE IF options.multiple THEN {files[i] : i \in 1..Len(files)}
    ELSE {files[i] : i \in 1..Len(files) \cap {1}}

\* C31: the catch block cleans the files of the mode that processed the
\* request: when next is called with the error of a failed backend upload,
\* no temp file of a file that mode handled is left, also with
\* options.fields set to an empty array.
C31_CatchCleansHandledFiles ==
    \A k \in 1..Len(nextCalls) :
        nextCalls[k].err /\ nextCalls[k].cause = "upload" =>
            \A f \in HandledFiles : f.id \notin nextCalls[k].fs

\* --------------------------------------------- temp files of running uploads
\* C32: in multiple mode no temp file is deleted while a backend upload
\* that reads from its path is in flight, whichever upload returns or fails
\* first: the sweep of the catch block leaves the files of the uploads that
\* have not finished.
C32_NoUnlinkWhileInFlight ==
    (~FieldsMode /\ options.multiple /\ UploadReadsPath) =>
        \A id \in inflight : id \in fsFiles

\* ------------------------------------------------- what uploadedFiles holds
\* The locations req.uploadedFiles holds under a field name.
StoredFor(upl, name) ==
    IF name \in DOMAIN upl THEN UrlsOfValue(upl[name]) ELSE {}

\* The locations the backend uploads issued for a field have returned.
ReturnedFor(name) ==
    {Location(FileNameOf(files[uploads[u]])) :
        u \in {v \in 1..Len(uploads) : files[uploads[v]].field = name}}

\* C33: when next is called without an error, req.uploadedFiles holds for
\* every field exactly the locations the backend uploads issued for that
\* field returned: none is dropped and no other value is stored.
C33_StoredAreReturned ==
    \A k \in 1..Len(nextCalls) :
        ~nextCalls[k].err =>
            \A name \in FieldNames \cup {DefaultFieldName} :
                StoredFor(nextCalls[k].uploaded, name) = ReturnedFor(name)

\* ------------------------------------------------------- keys of two uploads
\* C34: two distinct files, of the same request or of two requests served
\* at the same time, are never uploaded under the same auto-generated object
\* key, also when they carry the same originalname and their keys are made
\* within the same clock tick: no upload overwrites another.
C34_DistinctKeys ==
    \A k, l \in 1..Len(eUploads) :
        eUploads[k].file # eUploads[l].file =>
            eUploads[k].fileName # eUploads[l].fileName

\* ------------------------------------------------------ next and callback
\* The stream of file i has emitted "end" or "error" after _handleFile
\* attached its listeners.
StreamOver(i) == i <= Len(eFiles) /\ eh[i].phase \in {"ended", "errored"}

\* The callback of file i's _handleFile has been called.
CallbackCalled(i) == i <= Len(eFiles) /\ eh[i].cbs # <<>>

\* C35: with every backend call returning or failing, every invocation of
\* the middleware eventually calls next, and every _handleFile call whose
\* file stream emits "end" or "error" eventually calls its callback.
C35_NextAndCallbackEventually ==
    /\ (pc = "start") ~> (nextCalls # <<>>)
    /\ \A i \in 1..MaxFiles : StreamOver(i) ~> CallbackCalled(i)

\* An upload the engine awaited has settled and the callback is called.
C35_Witness ==
    \E i \in 1..Len(eFiles) :
        /\ eh[i].phase = "ended"
        /\ eh[i].upload = "returned"
        /\ eh[i].cbs # <<>>

====
